---- MODULE Spec2Model ----
(***************************************************************************)
(* A model of the TCP server of atan135/gcctest: the pooled message        *)
(* buffers (MessageBuffer, MessageBufferPool, MessageQueue), the memory    *)
(* tracker, the per-socket ConnectionHandler and the epoll reactor         *)
(* (NetworkServer).  Every C++ method is an operator from the state it     *)
(* reads to the state it leaves; the actions apply the operators to the    *)
(* variables.  Byte counts of the program (4096, 1024, 50, 10) are scaled  *)
(* down to small numbers that keep their order relations.                  *)
(***************************************************************************)
EXTENDS Integers, Sequences, FiniteSets, TLC

VARIABLES
    conn,      \* client_fd -> the ConnectionHandler object and its socket
    mem,       \* MemoryTracker: current_usage_, peak_usage_
    lastOp,    \* the call made by the last step (operation, connection, argument)
    server,    \* NetworkServer: running_, server_fd_, epoll_fd_, connections_, ...
    pool_,     \* ThreadPool: the work queue and what each worker runs
    held,      \* the buffers a direct user of a pool holds
    threads    \* the MemoryTracker call each thread of a concurrent user is in

vars == <<conn, mem, lastOp, server, pool_, held, threads>>

(***************************************************************************)
(* Sizes.  The program's values are in the comments; the model keeps       *)
(* DEFAULT_BUFFER_SIZE < MAX_MESSAGE_SIZE = RECV_BUFFER_SIZE and           *)
(* PREALLOCATED_BUFFERS <= MAX_POOL_SIZE as the program does.              *)
(***************************************************************************)
MAX_MESSAGE_SIZE == 4        \* ConnectionHandler::MAX_MESSAGE_SIZE = 4096
RECV_BUFFER_SIZE == 4        \* char buffer[4096] in handleRead
READ_BUFFER_FACTOR == 2      \* read_buffer_.size() > MAX_MESSAGE_SIZE * 10
DEFAULT_BUFFER_SIZE == 3     \* MessageBufferPool::DEFAULT_BUFFER_SIZE = 1024
MAX_POOL_SIZE == 2           \* MessageBufferPool::MAX_POOL_SIZE = 50
PREALLOCATED_BUFFERS == 1    \* for (int i = 0; i < 10; ++i) in the pool constructor

MaxStream == 9               \* bytes a peer sends on one connection
MaxClients == 2              \* clients that connect to the server
MaxEnqueued == 3             \* successful enqueues on one connection
MaxSendCalls == 1            \* send() calls that accept bytes within one handleWrite
MaxCloses == 2               \* ::close calls counted on one descriptor
MaxFrames == 2               \* frames the clients of the running server send
NumWorkers == 2              \* thread_count: worker threads of the pool
MaxConnections == 1          \* max_connections given to the constructor
NumThreads == 2              \* threads that make and destroy MessageBuffers at once
MaxBuffers == 3              \* MessageBuffer objects those threads make in all

MESSAGE_DELIMITER == 10      \* '\n'
Payload == {97, 98}          \* 'a', 'b': the bytes of sendMessage's arguments
Bytes == {97, MESSAGE_DELIMITER}   \* the bytes a peer sends
EchoPrefix == <<69>>         \* 'E', stands for "Echo: "
AppPrefix == <<83>>          \* 'S', stands for "Server received: "

Min(a, b) == IF a < b THEN a ELSE b

\* the first n bytes of s and what follows them (std::string::substr / erase)
Take(s, n) == SubSeq(s, 1, n)
Drop(s, n) == SubSeq(s, n + 1, Len(s))

RECURSIVE Flatten(_)
Flatten(ss) == IF ss = <<>> THEN <<>> ELSE Head(ss) \o Flatten(Tail(ss))

(***************************************************************************)
(* MemoryTracker                                                           *)
(***************************************************************************)
\* the counters are std::atomic<size_t>: their arithmetic wraps (the model
\* keeps 16 of the 64 bits)
SIZE_RANGE == 65536

\* allocate run by one thread at a time: fetch_add, then the peak CAS loop
Allocate(m, bytes) ==
    LET new_usage == (m.current_usage_ + bytes) % SIZE_RANGE
    IN  [m EXCEPT !.current_usage_ = new_usage,
                  !.peak_usage_ = IF new_usage > @ THEN new_usage ELSE @,
                  !.max_after_allocate = IF new_usage > @ THEN new_usage ELSE @]

Deallocate(m, bytes) == [m EXCEPT !.current_usage_ = (@ - bytes) % SIZE_RANGE]

\* the atomic operations allocate is made of, for callers on several threads.
\* current_usage_.fetch_add(bytes); max_after_allocate records the largest
\* value current_usage_ has held right after a fetch_add of allocate
FetchAdd(m, bytes) ==
    LET new_usage == (m.current_usage_ + bytes) % SIZE_RANGE
    IN  [m EXCEPT !.current_usage_ = new_usage,
                  !.max_after_allocate = IF new_usage > @ THEN new_usage ELSE @]

\* peak_usage_.compare_exchange_weak(expected, desired): it may fail
\* spuriously, and a failure loads the value it found into expected
CompareExchangeWeak(m, expected, desired, spurious) ==
    IF m.peak_usage_ = expected /\ ~spurious
    THEN [ok |-> TRUE, m |-> [m EXCEPT !.peak_usage_ = desired], expected |-> expected]
    ELSE [ok |-> FALSE, m |-> m, expected |-> m.peak_usage_]

(***************************************************************************)
(* MessageBuffer: bytes holds buffer_[0 .. size_), so size_ = Len(bytes)   *)
(***************************************************************************)
NoBuffer == [bytes |-> <<>>, capacity_ |-> 0, offset_ |-> 0, null |-> TRUE]

\* the constructor; the caller charges Allocate(capacity)
MessageBuffer(capacity) ==
    [bytes |-> <<>>, capacity_ |-> capacity, offset_ |-> 0, null |-> FALSE]

BufferSize(b) == Len(b.bytes)

\* an append that stores what fits before it fails: the variant C20 rules out
BufferAppendTruncating(b, data) ==
    IF BufferSize(b) + Len(data) > b.capacity_
    THEN [ok |-> FALSE, b |-> [b EXCEPT !.bytes = @ \o Take(data, b.capacity_ - BufferSize(b))]]
    ELSE [ok |-> TRUE, b |-> [b EXCEPT !.bytes = @ \o data]]

BufferAppend(b, data) ==
    IF BufferSize(b) + Len(data) > b.capacity_
    THEN [ok |-> FALSE, b |-> b]
    ELSE [ok |-> TRUE, b |-> [b EXCEPT !.bytes = @ \o data]]

BufferReset(b) == [b EXCEPT !.bytes = <<>>, !.offset_ = 0]

IsComplete(b) == b.offset_ >= BufferSize(b)

(***************************************************************************)
(* What one send() on a non-blocking socket answers: it accepts k > 0 of   *)
(* the offered bytes, or fails with EAGAIN, or fails with another errno.   *)
(***************************************************************************)
EAGAIN == "EAGAIN"
EIO == "EIO"
Accepts(k) == [n |-> k, errno |-> ""]
Fails(e) == [n |-> -1, errno |-> e]
SendResult == {Accepts(k) : k \in 1 .. DEFAULT_BUFFER_SIZE} \cup {Fails(EAGAIN), Fails(EIO)}

\* sendPartial(socket_fd, start_offset) when send() answers r; ret is the
\* return value (-1 with errno in err), out the bytes put on the wire
\* a sendPartial that forgets to advance offset_: the variant C2 rules out
SendPartialNoAdvance(b, start_offset, r) ==
    IF start_offset >= BufferSize(b)
    THEN [ret |-> 0, err |-> "", b |-> b, out |-> <<>>]
    ELSE LET bytes_sent == Min(r.n, BufferSize(b) - start_offset)
         IN  [ret |-> bytes_sent, err |-> r.errno, b |-> b,
              out |-> SubSeq(b.bytes, start_offset + 1, start_offset + bytes_sent)]

SendPartial(b, start_offset, r) ==
    IF start_offset >= BufferSize(b)
    THEN [ret |-> 0, err |-> "", b |-> b, out |-> <<>>]
    ELSE LET bytes_to_send == BufferSize(b) - start_offset
             bytes_sent == Min(r.n, bytes_to_send)
         IN  [ret |-> bytes_sent, err |-> r.errno,
              b |-> IF bytes_sent > 0
                    THEN [b EXCEPT !.offset_ = start_offset + bytes_sent]
                    ELSE b,
              out |-> SubSeq(b.bytes, start_offset + 1, start_offset + bytes_sent)]

\* a splitAt that copies the tail and forgets to truncate: the variant C33
\* rules out
SplitAtNoTruncate(b, position) ==
    IF position >= BufferSize(b)
    THEN [b |-> b, new_buffer |-> NoBuffer]
    ELSE [b |-> b,
          new_buffer |-> BufferAppend(MessageBuffer(b.capacity_), Drop(b.bytes, position)).b]

\* splitAt: the bytes from position on move to a new buffer of the same
\* capacity (its constructor is charged by the caller); offset_ stays
SplitAt(b, position) ==
    IF position >= BufferSize(b)
    THEN [b |-> b, new_buffer |-> NoBuffer]
    ELSE LET a == BufferAppend(MessageBuffer(b.capacity_), Drop(b.bytes, position))
         IN  IF a.ok
             THEN [b |-> [b EXCEPT !.bytes = Take(@, position)], new_buffer |-> a.b]
             ELSE [b |-> b, new_buffer |-> NoBuffer]

(***************************************************************************)
(* A world w = [h |-> one ConnectionHandler with its MessageQueue, pool    *)
(* and socket, m |-> the MemoryTracker]: the state a method reads and      *)
(* writes.                                                                 *)
(***************************************************************************)

\* MessageBufferPool::MessageBufferPool(buffer_size) inside a fresh handler
RECURSIVE PoolPrealloc(_, _)
PoolPrealloc(w, i) ==
    IF i = 0 THEN w
    ELSE PoolPrealloc(
           [w EXCEPT !.h.available_buffers_ = Append(@, MessageBuffer(DEFAULT_BUFFER_SIZE)),
                     !.h.pool_size_ = @ + 1,
                     !.m = Allocate(@, DEFAULT_BUFFER_SIZE)],
           i - 1)

\* an acquire that allocates whenever fewer than MAX_POOL_SIZE buffers are
\* out, free list or not: the variant C16 rules out
PoolAcquireAlwaysFresh(w) ==
    IF w.h.active_buffers_ < MAX_POOL_SIZE
    THEN [w |-> [w EXCEPT !.h.active_buffers_ = @ + 1,
                          !.m = Allocate(@, DEFAULT_BUFFER_SIZE)],
          buffer |-> MessageBuffer(DEFAULT_BUFFER_SIZE)]
    ELSE [w |-> w, buffer |-> NoBuffer]

\* an acquire whose limit test is <= instead of <: the variant C17 rules out
PoolAcquireOneMore(w) ==
    IF w.h.available_buffers_ # <<>>
    THEN LET n == Len(w.h.available_buffers_)
         IN  [w |-> [w EXCEPT !.h.available_buffers_ = Take(@, n - 1),
                              !.h.pool_size_ = @ - 1,
                              !.h.active_buffers_ = @ + 1],
              buffer |-> BufferReset(w.h.available_buffers_[n])]
    ELSE IF w.h.active_buffers_ <= MAX_POOL_SIZE
    THEN [w |-> [w EXCEPT !.h.active_buffers_ = @ + 1,
                          !.m = Allocate(@, DEFAULT_BUFFER_SIZE)],
          buffer |-> MessageBuffer(DEFAULT_BUFFER_SIZE)]
    ELSE [w |-> w, buffer |-> NoBuffer]

PoolAcquire(w) ==
    IF w.h.available_buffers_ # <<>>
    THEN LET n == Len(w.h.available_buffers_)
         IN  [w |-> [w EXCEPT !.h.available_buffers_ = Take(@, n - 1),
                              !.h.pool_size_ = @ - 1,
                              !.h.active_buffers_ = @ + 1],
              buffer |-> BufferReset(w.h.available_buffers_[n])]
    ELSE IF w.h.active_buffers_ < MAX_POOL_SIZE
    THEN [w |-> [w EXCEPT !.h.active_buffers_ = @ + 1,
                          !.m = Allocate(@, DEFAULT_BUFFER_SIZE)],
          buffer |-> MessageBuffer(DEFAULT_BUFFER_SIZE)]
    ELSE [w |-> w, buffer |-> NoBuffer]

\* a release that leaves active_buffers_ alone: the variant C18 rules out
PoolReleaseKeepsCount(w, buffer) ==
    IF buffer.null THEN w
    ELSE IF Len(w.h.available_buffers_) < MAX_POOL_SIZE
    THEN [w EXCEPT !.h.available_buffers_ = Append(@, BufferReset(buffer)),
                   !.h.pool_size_ = @ + 1]
    ELSE [w EXCEPT !.m = Deallocate(@, buffer.capacity_)]

\* a buffer that finds the free list full is destroyed when release returns
PoolRelease(w, buffer) ==
    IF buffer.null THEN w
    ELSE IF Len(w.h.available_buffers_) < MAX_POOL_SIZE
    THEN [w EXCEPT !.h.available_buffers_ = Append(@, BufferReset(buffer)),
                   !.h.pool_size_ = @ + 1,
                   !.h.active_buffers_ = @ - 1]
    ELSE [w EXCEPT !.h.active_buffers_ = @ - 1,
                   !.m = Deallocate(@, buffer.capacity_)]

(***************************************************************************)
(* MessageQueue                                                            *)
(***************************************************************************)
\* an enqueue that keeps the buffer when the bytes do not fit: the variant
\* C24 rules out
QueueEnqueueKeepsBuffer(w, data) ==
    LET a == PoolAcquire(w)
    IN  IF a.buffer.null
        THEN [ok |-> FALSE, w |-> w]
        ELSE LET p == BufferAppend(a.buffer, data)
             IN  IF ~p.ok
                 THEN [ok |-> FALSE, w |-> a.w]
                 ELSE [ok |-> TRUE,
                       w |-> [a.w EXCEPT !.h.messages_ = Append(@, p.b),
                                         !.h.enqueued = Append(@, data)]]

QueueEnqueue(w, data) ==
    LET a == PoolAcquire(w)
    IN  IF a.buffer.null
        THEN [ok |-> FALSE, w |-> w]
        ELSE LET p == BufferAppend(a.buffer, data)
             IN  IF ~p.ok
                 THEN [ok |-> FALSE, w |-> PoolRelease(a.w, a.buffer)]
                 ELSE [ok |-> TRUE,
                       w |-> [a.w EXCEPT !.h.messages_ = Append(@, p.b),
                                         !.h.enqueued = Append(@, data)]]

QueueEmpty(w) == w.h.messages_ = <<>>

QueueFront(w) == IF w.h.messages_ = <<>> THEN NoBuffer ELSE Head(w.h.messages_)

QueuePop(w) ==
    IF w.h.messages_ = <<>> THEN w
    ELSE PoolRelease([w EXCEPT !.h.messages_ = Tail(@)], Head(w.h.messages_))

RECURSIVE ReleaseAll(_, _)
ReleaseAll(w, buffers) ==
    IF buffers = <<>> THEN w
    ELSE ReleaseAll(PoolRelease(w, Head(buffers)), Tail(buffers))

QueueClear(w) == [ReleaseAll(w, w.h.messages_) EXCEPT !.h.messages_ = <<>>]

(***************************************************************************)
(* ConnectionHandler.  Beside the object's fields the record h holds the   *)
(* kernel's side of client_fd_ (rcvbuf: bytes arrived and not yet read,    *)
(* peer_eof, sock_err, sent: bytes accepted by send, closes: ::close calls *)
(* made through the handler) and three logs (rx: bytes returned by recv,   *)
(* delivered: frames given to the callback, enqueued: bytes of every       *)
(* buffer put on the queue).  callback_throws is what the installed         *)
(* callback does when it is called: it returns ("no"), or it throws an     *)
(* object derived from std::exception or one of another type; escaped is   *)
(* the exception that has left a method of the handler.  last_recv is what *)
(* the last recv call of the handleRead that is running reported ("none"   *)
(* outside of a handleRead, and in one that has not called recv), and      *)
(* last_send the same for the send calls of a handleWrite.                 *)
(* callback_closes tells that the installed callback calls close() on the  *)
(* handler it is given; late_deliveries counts the frames given to the     *)
(* callback while connected_ was false.  send_queue_ is the                *)
(* std::queue<std::string> of the handler's string-queue version.          *)
(***************************************************************************)
NoHandler ==
    [alive |-> FALSE, connected_ |-> FALSE, onMessageReceived |-> FALSE,
     read_buffer_ |-> <<>>, messages_ |-> <<>>, temp_buffer_ |-> NoBuffer,
     available_buffers_ |-> <<>>, pool_size_ |-> 0, active_buffers_ |-> 0,
     rcvbuf |-> <<>>, peer_eof |-> FALSE, sock_err |-> FALSE, sent |-> <<>>,
     closes |-> 0, rx |-> <<>>, delivered |-> <<>>, enqueued |-> <<>>,
     read_peak |-> 0, callback_throws |-> "no", escaped |-> "none",
     last_recv |-> "none", last_send |-> "none",
     callback_closes |-> FALSE, late_deliveries |-> 0, send_queue_ |-> <<>>]

\* the constructor: the members (send_queue_ with its pool) and then temp_buffer_
NewHandler(m, callback) ==
    LET w0 == [h |-> [NoHandler EXCEPT !.alive = TRUE, !.connected_ = TRUE,
                                       !.onMessageReceived = callback],
               m |-> m]
        w1 == PoolPrealloc(w0, PREALLOCATED_BUFFERS)
    IN  [w1 EXCEPT !.h.temp_buffer_ = MessageBuffer(MAX_MESSAGE_SIZE),
                   !.m = Allocate(@, MAX_MESSAGE_SIZE)]

HasMessagesToSend(w) == ~QueueEmpty(w)

HandleDisconnection(w) == [w EXCEPT !.h.connected_ = FALSE]

\* both append results and the enqueue result are dropped by the code
\* a sendMessage that appends no delimiter: the variant C3 rules out
SendMessageStringUnframed(w, message) ==
    IF ~w.h.connected_ THEN w
    ELSE LET t1 == BufferAppend(BufferReset(w.h.temp_buffer_), message).b
         IN  QueueEnqueue([w EXCEPT !.h.temp_buffer_ = t1], t1.bytes).w

SendMessageString(w, message) ==
    IF ~w.h.connected_ THEN w
    ELSE LET t0 == BufferReset(w.h.temp_buffer_)
             t1 == BufferAppend(t0, message).b
             t2 == BufferAppend(t1, <<MESSAGE_DELIMITER>>).b
         IN  QueueEnqueue([w EXCEPT !.h.temp_buffer_ = t2], t2.bytes).w

SendMessageData(w, data) ==
    IF ~w.h.connected_ THEN w
    ELSE LET t0 == BufferReset(w.h.temp_buffer_)
             t1 == BufferAppend(t0, data).b
             t2 == BufferAppend(t1, <<MESSAGE_DELIMITER>>).b
         IN  QueueEnqueue([w EXCEPT !.h.temp_buffer_ = t2], t2.bytes).w

SendMessageBuffer(w, buffer) ==
    IF ~w.h.connected_ THEN w
    ELSE QueueEnqueue(w, buffer.bytes).w

\* the lambda main() installs with setMessageHandler
AppHandler(w, message) ==
    SendMessageString([w EXCEPT !.h.delivered = Append(@, message)],
                      AppPrefix \o message)

\* a close without the connected_ test: the variant C9 rules out
CloseUnguarded(w) ==
    [QueueClear(w) EXCEPT !.h.closes = @ + 1, !.h.connected_ = FALSE]

Close(w) ==
    IF w.h.connected_
    THEN [QueueClear(w) EXCEPT !.h.closes = @ + 1, !.h.connected_ = FALSE]
    ELSE w

\* a callback that ends the conversation: it calls close() on its handler
ClosingHandler(w, message) ==
    Close([w EXCEPT !.h.delivered = Append(@, message)])

\* std::string::find: the index of the first b in s, 0 for npos
RECURSIVE Find(_, _)
Find(s, b) ==
    IF s = <<>> THEN 0
    ELSE IF Head(s) = b THEN 1
    ELSE LET r == Find(Tail(s), b) IN IF r = 0 THEN 0 ELSE r + 1

RECURSIVE ExtractMessages(_)
ExtractMessages(w) ==
    LET pos == Find(w.h.read_buffer_, MESSAGE_DELIMITER)
    IN  IF pos = 0 THEN w
        ELSE LET message == Take(w.h.read_buffer_, pos - 1)
                 w1 == [w EXCEPT !.h.read_buffer_ = Drop(@, pos)]
             IN  IF message = <<>> THEN ExtractMessages(w1)
                 ELSE IF w1.h.onMessageReceived
                 THEN LET w2 == [w1 EXCEPT !.h.late_deliveries =
                                               IF w1.h.connected_ THEN @ ELSE @ + 1]
                      IN  IF w2.h.callback_throws # "no"
                          THEN [w2 EXCEPT !.h.delivered = Append(@, message),
                                          !.h.escaped = w2.h.callback_throws]
                          ELSE IF w2.h.callback_closes
                          THEN ExtractMessages(ClosingHandler(w2, message))
                          ELSE ExtractMessages(AppHandler(w2, message))
                 ELSE ExtractMessages(SendMessageString(w1, EchoPrefix \o message))

\* a processIncomingData that takes one frame only: the variant C31 rules out
ProcessIncomingDataOneFrame(w) ==
    LET pos == Find(w.h.read_buffer_, MESSAGE_DELIMITER)
    IN  IF pos = 0 \/ pos = 1 THEN [w EXCEPT !.h.read_buffer_ = Drop(@, pos)]
        ELSE AppHandler([w EXCEPT !.h.read_buffer_ = Drop(@, pos)],
                        Take(w.h.read_buffer_, pos - 1))

\* a processIncomingData without the size test: the variant C15 rules out
ProcessIncomingDataUncapped(w) == ExtractMessages(w)

ProcessIncomingData(w) ==
    IF Len(w.h.read_buffer_) > MAX_MESSAGE_SIZE * READ_BUFFER_FACTOR
    THEN HandleDisconnection(w)
    ELSE ExtractMessages(w)

\* a processMessages without the connected_ test: the variant C7 rules out
ProcessMessagesUnguarded(w) == ExtractMessages(w)

ProcessMessages(w) == IF ~w.h.connected_ THEN w ELSE ExtractMessages(w)

\* the recv loop of handleRead; data_received is the loop's flag.  recv
\* returns what has arrived, at most RECV_BUFFER_SIZE bytes; with nothing
\* left it reports the socket error, the peer's close (0) or EAGAIN.
\* read_peak records the largest read_buffer_.size() the loop has produced.
RECURSIVE ReadLoop(_, _)
ReadLoop(w, data_received) ==
    IF w.h.rcvbuf = <<>>
    THEN IF w.h.sock_err \/ w.h.peer_eof
         THEN HandleDisconnection(
                  [w EXCEPT !.h.last_recv = IF w.h.sock_err THEN "error" ELSE "eof"])
         ELSE LET w0 == [w EXCEPT !.h.last_recv = "again"]
              IN  IF data_received THEN ProcessIncomingData(w0) ELSE w0
    ELSE LET bytes_received == Min(Len(w.h.rcvbuf), RECV_BUFFER_SIZE)
             buffer == Take(w.h.rcvbuf, bytes_received)
             w1 == [w EXCEPT !.h.rcvbuf = Drop(@, bytes_received),
                             !.h.read_buffer_ = @ \o buffer,
                             !.h.rx = @ \o buffer,
                             !.h.last_recv = "data",
                             !.h.read_peak =
                                 IF Len(w.h.read_buffer_) + bytes_received > @
                                 THEN Len(w.h.read_buffer_) + bytes_received ELSE @]
         IN  IF bytes_received < RECV_BUFFER_SIZE
             THEN ProcessIncomingData(w1)
             ELSE ReadLoop(w1, TRUE)

\* catch (const std::exception& e) { ...; handleDisconnection(); }
CatchStdException(w) ==
    IF w.h.escaped = "std::exception"
    THEN HandleDisconnection([w EXCEPT !.h.escaped = "none"])
    ELSE w

\* a handleRead that takes EAGAIN on its first recv for an error: the
\* variant C25 rules out
HandleReadAgainIsFatal(w) ==
    IF ~w.h.connected_ THEN w
    ELSE IF w.h.rcvbuf = <<>> /\ ~w.h.sock_err /\ ~w.h.peer_eof
    THEN HandleDisconnection(w)
    ELSE CatchStdException(ReadLoop(w, FALSE))

HandleRead(w) ==
    IF ~w.h.connected_ THEN w ELSE CatchStdException(ReadLoop(w, FALSE))

\* the send loop of handleWrite; rs are the answers of the socket to the
\* send() calls of this wakeup, EAGAIN once they are used up
RECURSIVE WriteLoop(_, _)
WriteLoop(w, rs) ==
    IF QueueEmpty(w) THEN w
    ELSE LET buffer == QueueFront(w)
             r == IF rs = <<>> THEN Fails(EAGAIN) ELSE Head(rs)
             s == SendPartial(buffer, buffer.offset_, r)
             w1 == [w EXCEPT !.h.messages_[1] = s.b, !.h.sent = @ \o s.out,
                             !.h.last_send =
                                 IF buffer.offset_ >= BufferSize(buffer) THEN @
                                 ELSE IF r.n < 0 THEN r.errno ELSE "data"]
         IN  IF s.ret < 0
             THEN IF s.err = EAGAIN THEN w1 ELSE HandleDisconnection(w1)
             ELSE IF s.ret = 0 THEN w1
             ELSE IF IsComplete(s.b)
             THEN WriteLoop(QueuePop(w1), IF rs = <<>> THEN rs ELSE Tail(rs))
             ELSE WriteLoop(w1, IF rs = <<>> THEN rs ELSE Tail(rs))

HandleWrite(w, rs) ==
    IF ~w.h.connected_ \/ ~HasMessagesToSend(w) THEN w ELSE WriteLoop(w, rs)

RECURSIVE DestroyBuffers(_, _)
DestroyBuffers(m, buffers) ==
    IF buffers = <<>> THEN m
    ELSE DestroyBuffers(Deallocate(m, Head(buffers).capacity_), Tail(buffers))

\* a destructor that leaves the queued buffers allocated: the variant C27
\* rules out
DestructorKeepsQueue(w) ==
    LET w1 == Close(w)
        m1 == Deallocate(w1.m, w1.h.temp_buffer_.capacity_)
        m2 == DestroyBuffers(m1, w1.h.available_buffers_)
    IN  [h |-> [w1.h EXCEPT !.alive = FALSE, !.temp_buffer_ = NoBuffer,
                            !.available_buffers_ = <<>>, !.messages_ = <<>>,
                            !.read_buffer_ = <<>>],
         m |-> m2]

\* the destructor: close(), then the members die: temp_buffer_, the pool's
\* free list, the queued buffers
Destructor(w) ==
    LET w1 == Close(w)
        m1 == Deallocate(w1.m, w1.h.temp_buffer_.capacity_)
        m2 == DestroyBuffers(m1, w1.h.available_buffers_)
        m3 == DestroyBuffers(m2, w1.h.messages_)
    IN  [h |-> [w1.h EXCEPT !.alive = FALSE, !.temp_buffer_ = NoBuffer,
                            !.available_buffers_ = <<>>, !.messages_ = <<>>,
                            !.read_buffer_ = <<>>],
         m |-> m3]

(***************************************************************************)
(* NetworkServer.  A state g = [conn, mem, server, pool_] is what a method *)
(* of the server reads and writes.  Beside the object's fields the record  *)
(* server holds main()'s position (pc), main()'s globals, the signal       *)
(* dispositions, and the kernel's side of the descriptors: open (the       *)
(* listening socket and the epoll handle), backlog (connections not yet    *)
(* accepted), accepted, interest (the event mask each client socket is     *)
(* registered with), ready (events epoll_wait has still to return),        *)
(* listen_ready, and srv_closes (close(fd) calls the server makes itself). *)
(* dispatching is the client whose entry handleClientEvent has found and   *)
(* not yet used (0: none), event_mask the events it was called with.       *)
(* accepting tells that run() is inside the loop of handleNewConnection,   *)
(* fd_limit that the process has no free descriptor left (accept fails     *)
(* with EMFILE).                                                           *)
(***************************************************************************)
Signals == {"SIGINT", "SIGTERM", "SIGUSR1"}

\* main(): setupSignalHandlers()
SetupSignalHandlers(disposition) == [s \in Signals |-> "signalHandler"]

\* the constructor: signal(SIGINT, ...) and signal(SIGTERM, ...)
ConstructorSignals(disposition) ==
    [s \in Signals |-> IF s \in {"SIGINT", "SIGTERM"}
                       THEN "staticSignalHandler" ELSE disposition[s]]

\* main() up to g_server_instance = &server
ConstructedServer ==
    [pc |-> "constructed",
     max_connections_ |-> MaxConnections,
     running_ |-> FALSE, server_fd_ |-> "-1", epoll_fd_ |-> "-1",
     connections_ |-> {},
     g_server_instance |-> TRUE, g_shutdown_requested |-> FALSE,
     disposition |-> ConstructorSignals(SetupSignalHandlers([s \in Signals |-> "SIG_DFL"])),
     open |-> {}, sys_closes |-> [d \in {"listen", "epoll"} |-> 0],
     stop_ran |-> FALSE,
     backlog |-> {}, accepted |-> {},
     interest |-> [c \in 1 .. MaxClients |-> {}],
     ready |-> [c \in 1 .. MaxClients |-> {}],
     listen_ready |-> FALSE,
     srv_closes |-> [c \in 1 .. MaxClients |-> 0],
     dispatching |-> 0, event_mask |-> {},
     accepting |-> FALSE, fd_limit |-> FALSE,
     crashed |-> FALSE]

\* the event mask handleNewConnection registers a client socket with
ClientEvents == {"EPOLLIN", "EPOLLET", "EPOLLRDHUP"}

\* the handler of fd inside g, as a method sees it
HandlerOf(g, fd) == [h |-> g.conn[fd], m |-> g.mem]

\* g after a method of the handler of fd returned w
WithHandler(g, fd, w) == [g EXCEPT !.conn[fd] = w.h, !.mem = w.m]

\* close(fd) called by the server's own code
ServerCloseFd(g, fd) == [g EXCEPT !.server.srv_closes[fd] = @ + 1]

\* a client descriptor the kernel still holds open
FdOpen(g, fd) ==
    fd \in g.server.accepted /\ g.conn[fd].closes = 0 /\ g.server.srv_closes[fd] = 0

\* a client descriptor the epoll instance still watches (closing a descriptor
\* removes it from the interest list)
EpollRegistered(g, fd) ==
    g.server.interest[fd] # {} /\ FdOpen(g, fd) /\ "epoll" \in g.server.open

\* start(): setupServer() and setupEpoll() succeed
Start(g) ==
    [g EXCEPT !.server.server_fd_ = "listen",
              !.server.epoll_fd_ = "epoll",
              !.server.open = {"listen", "epoll"},
              !.server.running_ = TRUE]

RECURSIVE CloseAll(_, _)
CloseAll(g, fds) ==
    IF fds = {} THEN g
    ELSE LET fd == CHOOSE c \in fds : TRUE
         IN  CloseAll(WithHandler(g, fd, Close(HandlerOf(g, fd))), fds \ {fd})

\* connections_.clear() and the map's destructor: every handler is destroyed
RECURSIVE DestroyAll(_, _)
DestroyAll(g, fds) ==
    IF fds = {} THEN [g EXCEPT !.server.connections_ = {}]
    ELSE LET fd == CHOOSE c \in fds : TRUE
         IN  DestroyAll(WithHandler(g, fd, Destructor(HandlerOf(g, fd))), fds \ {fd})

\* a stop() that tests neither running_ nor the descriptors and keeps their
\* values: the variant C11 rules out
StopUnguarded(g) ==
    LET g1 == [g EXCEPT !.server.running_ = FALSE]
        g2 == CloseAll(g1, g1.server.connections_)
        g3 == DestroyAll(g2, g2.server.connections_)
    IN  [g3 EXCEPT !.server.open = @ \ {"listen", "epoll"},
                   !.server.sys_closes = [d \in {"listen", "epoll"} |-> @[d] + 1],
                   !.server.stop_ran = TRUE]

\* stop_ran records that the body of stop() has run
Stop(g) ==
    IF g.server.running_
    THEN LET g1 == [g EXCEPT !.server.running_ = FALSE, !.server.stop_ran = TRUE]
             g2 == CloseAll(g1, g1.server.connections_)
             g3 == DestroyAll(g2, g2.server.connections_)
             g4 == IF g3.server.server_fd_ # "-1"
                   THEN [g3 EXCEPT !.server.open = @ \ {"listen"},
                                   !.server.sys_closes["listen"] = @ + 1,
                                   !.server.server_fd_ = "-1"]
                   ELSE g3
         IN  IF g4.server.epoll_fd_ # "-1"
             THEN [g4 EXCEPT !.server.open = @ \ {"epoll"},
                             !.server.sys_closes["epoll"] = @ + 1,
                             !.server.epoll_fd_ = "-1"]
             ELSE g4
    ELSE g

\* the accept loop; add_fails are the sockets whose EPOLL_CTL_ADD fails
RECURSIVE HandleNewConnection(_, _)
HandleNewConnection(g, add_fails) ==
    IF g.server.backlog = {} THEN g
    ELSE LET client_fd == CHOOSE c \in g.server.backlog : \A d \in g.server.backlog : c <= d
             w == NewHandler(g.mem, FALSE)
             g1 == [g EXCEPT !.server.backlog = @ \ {client_fd},
                             !.server.accepted = @ \cup {client_fd},
                             !.conn[client_fd] = w.h,
                             !.mem = w.m]
         IN  IF client_fd \in add_fails
             THEN HandleNewConnection(
                      WithHandler(ServerCloseFd(g1, client_fd), client_fd,
                                  Destructor(HandlerOf(g1, client_fd))),
                      add_fails)
             ELSE HandleNewConnection(
                      [g1 EXCEPT !.server.interest[client_fd] = ClientEvents,
                                 !.server.connections_ = @ \cup {client_fd}],
                      add_fails)

CleanupConnection(g, client_fd) ==
    LET g1 == IF client_fd \in g.server.connections_
              THEN [WithHandler(g, client_fd, Destructor(Close(HandlerOf(g, client_fd))))
                       EXCEPT !.server.connections_ = @ \ {client_fd}]
              ELSE g
    IN  ServerCloseFd([g1 EXCEPT !.server.interest[client_fd] = {}], client_fd)

\* the task is [&handler]() { handler->handle(); }
HandleClientEvent(g, client_fd, events) ==
    IF client_fd \notin g.server.connections_ THEN g
    ELSE IF events \cap {"EPOLLRDHUP", "EPOLLHUP", "EPOLLERR"} # {}
    THEN CleanupConnection(g, client_fd)
    ELSE IF "EPOLLIN" \in events
    THEN [g EXCEPT !.pool_.tasks = Append(@, client_fd)]
    ELSE g

\* NetworkServer::signalHandler, reached through staticSignalHandler
StaticSignalHandler(g) == [g EXCEPT !.server.running_ = FALSE]

\* main.cpp's signalHandler
MainSignalHandler(g) ==
    LET g1 == [g EXCEPT !.server.g_shutdown_requested = TRUE]
    IN  IF g1.server.g_server_instance THEN Stop(g1) ELSE g1

\* ~NetworkServer: stop(), then the members die: connections_ with its handlers
ServerDestructor(g) ==
    LET g1 == Stop(g) IN DestroyAll(g1, g1.server.connections_)

\* handle() of the handler a task was queued for stands for its read step
Handle(w) == [HandleRead(w) EXCEPT !.h.last_recv = "none"]

(***************************************************************************)
(* Inputs                                                                  *)
(***************************************************************************)
Fds == 1 .. MaxClients
FirstFd == CHOOSE c \in Fds : \A d \in Fds : c <= d

\* n payload bytes that start with first and alternate
Alternating(n, first) ==
    [i \in 1 .. n |-> IF i % 2 = 1 THEN first ELSE CHOOSE b \in Payload : b # first]

\* the arguments of sendMessage: a short one and the lengths at which the
\* pool buffer and the scratch buffer begin to refuse
MessageLengths ==
    {1, DEFAULT_BUFFER_SIZE - 1, DEFAULT_BUFFER_SIZE, MAX_MESSAGE_SIZE, MAX_MESSAGE_SIZE + 1}
Messages == {Alternating(n, 97) : n \in MessageLengths}

\* a message that fits a pool buffer and one that does not fit the scratch buffer
FewMessages == {Alternating(n, 97) : n \in {1, MAX_MESSAGE_SIZE + 1}}

\* what a caller's MessageBuffer may hold: nothing, or a full pool buffer
RawBuffers == {<<>>, Alternating(DEFAULT_BUFFER_SIZE, 98)}

RECURSIVE SeqsUpTo(_, _)
SeqsUpTo(S, n) ==
    IF n = 0 THEN {<<>>}
    ELSE LET shorter == SeqsUpTo(S, n - 1)
         IN  shorter \cup {Append(s, x) : s \in {q \in shorter : Len(q) = n - 1}, x \in S}

SendResults == SeqsUpTo(SendResult, MaxSendCalls)

\* what may have arrived on a socket before its first wakeup: nothing, one
\* frame, or one-byte frames that together pass the read buffer's limit
OneFrame == <<97, MESSAGE_DELIMITER>>
ManyFrames ==
    [i \in 1 .. MAX_MESSAGE_SIZE * READ_BUFFER_FACTOR + 1 |->
        IF i % 2 = 1 THEN 97 ELSE MESSAGE_DELIMITER]
Arrivals == {<<>>, OneFrame, ManyFrames}

(***************************************************************************)
(* Actions on one connection                                               *)
(***************************************************************************)
World(c) == [h |-> conn[c], m |-> mem]

Commit(c, w, op, arg) ==
    /\ conn' = [conn EXCEPT ![c] = w.h]
    /\ mem' = w.m
    /\ lastOp' = [op |-> op, fd |-> c, arg |-> arg]
    /\ UNCHANGED <<server, pool_, held, threads>>

CallSendMessageString(c, message) ==
    /\ conn[c].alive
    /\ Len(conn[c].enqueued) < MaxEnqueued
    /\ Commit(c, SendMessageString(World(c), message), "sendMessage", message)

CallSendMessageData(c, data) ==
    /\ conn[c].alive
    /\ Len(conn[c].enqueued) < MaxEnqueued
    /\ Commit(c, SendMessageData(World(c), data), "sendMessageData", data)

\* the argument is a caller's MessageBuffer that holds data
CallSendMessageBuffer(c, data) ==
    /\ conn[c].alive
    /\ Len(conn[c].enqueued) < MaxEnqueued
    /\ Len(data) <= MAX_MESSAGE_SIZE
    /\ Commit(c, SendMessageBuffer(World(c), BufferAppend(MessageBuffer(MAX_MESSAGE_SIZE), data).b),
              "sendMessageBuffer", data)

\* what the last send of the call reported is kept with the call
CallHandleWrite(c, rs) ==
    /\ conn[c].alive
    /\ LET w == HandleWrite(World(c), rs)
       IN  Commit(c, [w EXCEPT !.h.last_send = "none"], "handleWrite",
                  <<w.h.last_send>>)

\* what the last recv of the call reported is kept with the call
CallHandleRead(c) ==
    /\ conn[c].alive
    /\ LET w == HandleRead(World(c))
       IN  Commit(c, [w EXCEPT !.h.last_recv = "none"], "handleRead",
                  <<w.h.last_recv>>)

CallProcessMessages(c) ==
    /\ conn[c].alive
    /\ Commit(c, ProcessMessages(World(c)), "processMessages", <<>>)

CallClose(c) ==
    /\ conn[c].alive
    /\ conn[c].closes < MaxCloses
    /\ Commit(c, Close(World(c)), "close", <<>>)

CallDestructor(c) ==
    /\ conn[c].alive
    /\ Commit(c, Destructor(World(c)), "destructor", <<>>)

\* the peer's bytes reach the socket's receive buffer
PeerSend(c, b) ==
    /\ conn[c].alive /\ ~conn[c].peer_eof /\ ~conn[c].sock_err
    /\ conn[c].closes = 0
    /\ Len(conn[c].rx) + Len(conn[c].rcvbuf) < MaxStream
    /\ conn' = [conn EXCEPT ![c].rcvbuf = Append(@, b)]
    /\ lastOp' = [op |-> "peerSend", fd |-> c, arg |-> <<b>>]
    /\ UNCHANGED <<mem, server, pool_, held, threads>>

\* the peer closes its side: recv answers 0 once the receive buffer is empty
PeerClose(c) ==
    /\ conn[c].alive /\ ~conn[c].peer_eof
    /\ conn' = [conn EXCEPT ![c].peer_eof = TRUE]
    /\ lastOp' = [op |-> "peerClose", fd |-> c, arg |-> <<>>]
    /\ UNCHANGED <<mem, server, pool_, held, threads>>

\* the socket fails (reset, timeout): recv answers -1 with a real errno
SocketError(c) ==
    /\ conn[c].alive /\ ~conn[c].sock_err
    /\ conn' = [conn EXCEPT ![c].sock_err = TRUE]
    /\ lastOp' = [op |-> "socketError", fd |-> c, arg |-> <<>>]
    /\ UNCHANGED <<mem, server, pool_, held, threads>>

(***************************************************************************)
(* The states before any step                                              *)
(***************************************************************************)
NoMemory == [current_usage_ |-> 0, peak_usage_ |-> 0, max_after_allocate |-> 0]

\* no thread is inside a call (buffer is the MessageBuffer its call holds,
\* message the argument of its sendMessage), none has made a buffer, nobody
\* holds the queue's mutex
IdleThread ==
    [pc |-> "idle", capacity |-> 0, new_usage |-> 0, current_peak |-> 0,
     buffer |-> NoBuffer, message |-> <<>>]
NoThreads ==
    [call |-> [t \in 1 .. NumThreads |-> IdleThread], made |-> 0, queue_mutex_ |-> 0]
NoOp == [op |-> "none", fd |-> 0, arg |-> <<>>]
NoServer == ConstructedServer
NoPool == [tasks |-> <<>>, workers |-> [k \in 1 .. NumWorkers |-> 0]]

\* one connection whose callback is set, nothing else
InitOneConnection(arrived) ==
    LET w == NewHandler(NoMemory, TRUE)
    IN  /\ conn = [c \in Fds |-> IF c = FirstFd
                                 THEN [w.h EXCEPT !.rcvbuf = arrived]
                                 ELSE NoHandler]
        /\ mem = w.m
        /\ lastOp = NoOp
        /\ server = NoServer
        /\ pool_ = NoPool
        /\ held = <<>>
        /\ threads = NoThreads

(***************************************************************************)
(* SpecRead: one connection, the peer's byte stream and the read side      *)
(***************************************************************************)
InitRead == InitOneConnection(<<>>)

NextRead ==
    \/ \E b \in Bytes : PeerSend(FirstFd, b)
    \/ PeerClose(FirstFd)
    \/ SocketError(FirstFd)
    \/ CallHandleRead(FirstFd)
    \/ CallProcessMessages(FirstFd)
    \/ CallClose(FirstFd)

SpecRead == InitRead /\ [][NextRead]_vars

(***************************************************************************)
(* SpecSend: one connection, the send side under any socket answers        *)
(***************************************************************************)
InitSend == InitOneConnection(<<>>)

NextSend ==
    \/ \E s \in Messages : CallSendMessageString(FirstFd, s)
    \/ \E s \in FewMessages : CallSendMessageData(FirstFd, s)
    \/ \E s \in RawBuffers : CallSendMessageBuffer(FirstFd, s)
    \/ \E rs \in SendResults : CallHandleWrite(FirstFd, rs)
    \/ CallClose(FirstFd)

SpecSend == InitSend /\ [][NextSend]_vars

(***************************************************************************)
(* SpecConn: one connection, every public method, from any arrival         *)
(***************************************************************************)
InitConn == \E arrived \in Arrivals : InitOneConnection(arrived)

NextConn ==
    \/ \E s \in FewMessages : CallSendMessageString(FirstFd, s)
    \/ \E s \in FewMessages : CallSendMessageData(FirstFd, s)
    \/ \E s \in RawBuffers : CallSendMessageBuffer(FirstFd, s)
    \/ \E r \in SendResult : CallHandleWrite(FirstFd, <<r>>)
    \/ CallHandleRead(FirstFd)
    \/ CallProcessMessages(FirstFd)
    \/ CallClose(FirstFd)
    \/ CallDestructor(FirstFd)
    \/ PeerClose(FirstFd)

SpecConn == InitConn /\ [][NextConn]_vars

(***************************************************************************)
(* Framing (SpecRead)                                                      *)
(***************************************************************************)
IsPrefix(a, b) == Len(a) <= Len(b) /\ a = Take(b, Len(a))

\* the non-empty maximal substrings of s that a delimiter ends, in order;
\* cur is the frame being read
RECURSIVE FramesFrom(_, _)
FramesFrom(s, cur) ==
    IF s = <<>> THEN <<>>
    ELSE IF Head(s) = MESSAGE_DELIMITER
    THEN (IF cur = <<>> THEN <<>> ELSE <<cur>>) \o FramesFrom(Tail(s), <<>>)
    ELSE FramesFrom(Tail(s), Append(cur, Head(s)))

FramesOf(s) == FramesFrom(s, <<>>)

\* the longest run of bytes of s without a delimiter
RECURSIVE LongestRun(_, _)
LongestRun(s, cur) ==
    IF s = <<>> THEN cur
    ELSE IF Head(s) = MESSAGE_DELIMITER
    THEN LET rest == LongestRun(Tail(s), 0) IN IF cur > rest THEN cur ELSE rest
    ELSE LongestRun(Tail(s), cur + 1)

\* C1: on a connection whose peer has neither closed nor failed, whenever
\* every frame of the bytes received so far is at most MAX_MESSAGE_SIZE long,
\* the callback has been given exactly the non-empty frames of those bytes,
\* once each and in wire order, however they were split into recv chunks
\* and wakeups.
C1_FramesDelivered ==
    \A c \in Fds :
        (/\ conn[c].alive /\ conn[c].closes = 0
         /\ ~conn[c].peer_eof /\ ~conn[c].sock_err
         /\ LongestRun(conn[c].rx, 0) <= MAX_MESSAGE_SIZE)
        => conn[c].delivered = FramesOf(conn[c].rx)

(***************************************************************************)
(* The send side (SpecSend)                                                *)
(***************************************************************************)
\* the bytes of the queued buffers that send has not accepted yet
RECURSIVE Unsent(_)
Unsent(buffers) ==
    IF buffers = <<>> THEN <<>>
    ELSE Drop(Head(buffers).bytes, Head(buffers).offset_) \o Unsent(Tail(buffers))

\* C2: the bytes written to the socket are a prefix of the enqueued buffers
\* in enqueue order, and until close() empties the queue they are followed
\* exactly by the unsent rest of the queue: the head resumes at its offset,
\* only the head has one, and nothing is sent twice, skipped or reordered.
C2_WireIsPrefixOfEnqueued ==
    \A c \in Fds :
        conn[c].alive =>
            /\ IsPrefix(conn[c].sent, Flatten(conn[c].enqueued))
            /\ conn[c].closes = 0 =>
                   conn[c].sent \o Unsent(conn[c].messages_) = Flatten(conn[c].enqueued)
            /\ \A i \in 2 .. Len(conn[c].messages_) : conn[c].messages_[i].offset_ = 0

\* a partial send left the head in the middle with another buffer behind it
C2_Witness ==
    /\ lastOp.op = "handleWrite"
    /\ Len(conn[FirstFd].messages_) >= 2
    /\ conn[FirstFd].messages_[1].offset_ > 0
    /\ conn[FirstFd].messages_[1].offset_ < BufferSize(conn[FirstFd].messages_[1])
    /\ conn[FirstFd].sent # <<>>

Framed(s) == s \o <<MESSAGE_DELIMITER>>

QueuedCopy(bytes) ==
    [bytes |-> bytes, capacity_ |-> DEFAULT_BUFFER_SIZE, offset_ |-> 0, null |-> FALSE]

IsSendMessage(op) == op \in {"sendMessage", "sendMessageData"}

FitsBuffers(s) ==
    Len(s) + 1 <= MAX_MESSAGE_SIZE /\ Len(s) + 1 <= DEFAULT_BUFFER_SIZE

C4_AllOrNothing ==
    [][\A c \in Fds :
        (/\ IsSendMessage(lastOp'.op) /\ lastOp'.fd = c
         /\ conn[c].connected_
         /\ (~FitsBuffers(lastOp'.arg) \/ Len(conn[c].messages_) >= MAX_POOL_SIZE))
        => /\ conn'[c].messages_ = conn[c].messages_
           /\ conn'[c].enqueued = conn[c].enqueued]_vars

(***************************************************************************)
(* The life cycle (SpecConn)                                               *)
(***************************************************************************)
GuardedMethods ==
    {"handleRead", "handleWrite", "processMessages",
     "sendMessage", "sendMessageData", "sendMessageBuffer"}

\* C7: a handler whose connected_ is false never gets it back, and
\* handleRead, handleWrite, processMessages and the three sendMessage
\* overloads leave it, its socket and the memory counters as they were.
C7_ClosedIsTerminal ==
    [][\A c \in Fds :
        (conn[c].alive /\ ~conn[c].connected_)
        => /\ ~conn'[c].connected_
           /\ (lastOp'.op \in GuardedMethods /\ lastOp'.fd = c)
                  => (conn'[c] = conn[c] /\ mem' = mem)]_vars

\* processMessages ran on a closed handler that holds a complete frame and
\* queued buffers
C7_Witness ==
    /\ lastOp.op = "processMessages"
    /\ conn[FirstFd].alive /\ ~conn[FirstFd].connected_
    /\ Find(conn[FirstFd].read_buffer_, MESSAGE_DELIMITER) # 0
    /\ conn[FirstFd].messages_ # <<>>

\* C8: when close() has returned the descriptor has been closed, the queue
\* is empty and the pool has every buffer back.
C8_CloseReleasesAll ==
    \A c \in Fds :
        (lastOp.op = "close" /\ lastOp.fd = c)
        => /\ conn[c].closes >= 1
           /\ conn[c].messages_ = <<>>
           /\ conn[c].active_buffers_ = 0

\* C9: a close() that follows a close() changes nothing, and neither it nor
\* the destructor's close() closes the descriptor again.
C9_CloseIdempotent ==
    [][\A c \in Fds :
        (lastOp.op = "close" /\ lastOp.fd = c)
        => /\ lastOp'.op = "close" => (conn'[c] = conn[c] /\ mem' = mem)
           /\ lastOp'.op = "destructor" => conn'[c].closes = conn[c].closes]_vars

\* close() has closed the descriptor once and can be called again
C9_Witness ==
    /\ lastOp.op = "close"
    /\ conn[FirstFd].closes = 1
    /\ ~conn[FirstFd].connected_
    /\ ENABLED CallClose(FirstFd)

(***************************************************************************)
(* SpecServer: main(), the reactor loop, the workers, clients and signals  *)
(***************************************************************************)
Global == [conn |-> conn, mem |-> mem, server |-> server, pool_ |-> pool_]

Set(g, op, fd) ==
    /\ conn' = g.conn
    /\ mem' = g.mem
    /\ server' = g.server
    /\ pool_' = g.pool_
    /\ held' = held
    /\ threads' = threads
    /\ lastOp' = [op |-> op, fd |-> fd, arg |-> <<>>]

\* the frames the clients have sent so far
RECURSIVE SumOver(_, _)
SumOver(f, S) ==
    IF S = {} THEN 0
    ELSE LET x == CHOOSE y \in S : TRUE IN f[x] + SumOver(f, S \ {x})

FramesSent(g) ==
    SumOver([c \in Fds |-> (Len(g.conn[c].rx) + Len(g.conn[c].rcvbuf)) \div Len(OneFrame)], Fds)

\* main(): server.start() succeeds and run() begins
MainStart ==
    /\ ~server.crashed
    /\ server.pc = "constructed"
    /\ Set([Start(Global) EXCEPT !.server.pc = "running"], "start", 0)

\* a client connects: the listening socket becomes readable (accept hands
\* out descriptors in ascending order; listen(server_fd_, max_connections_)
\* lets one connection more than its backlog wait)
ClientConnects(c) ==
    /\ ~server.crashed
    /\ "listen" \in server.open
    /\ c \notin server.backlog \cup server.accepted
    /\ \A d \in 1 .. c - 1 : d \in server.backlog \cup server.accepted
    /\ Cardinality(server.backlog) <= server.max_connections_
    /\ Set([Global EXCEPT !.server.backlog = @ \cup {c},
                          !.server.listen_ready = TRUE], "connect", c)

\* a client writes one frame: an edge for the registered socket
ClientSends(c) ==
    /\ ~server.crashed
    /\ conn[c].alive /\ FdOpen(Global, c) /\ ~conn[c].peer_eof
    /\ FramesSent(Global) < MaxFrames
    /\ Set([Global EXCEPT !.conn[c].rcvbuf = @ \o OneFrame,
                          !.server.ready[c] = @ \cup (server.interest[c] \cap {"EPOLLIN"})],
           "clientSend", c)

\* a client closes: EPOLLIN and EPOLLRDHUP for the registered socket
ClientCloses(c) ==
    /\ ~server.crashed
    /\ conn[c].alive /\ FdOpen(Global, c) /\ ~conn[c].peer_eof
    /\ Set([Global EXCEPT !.conn[c].peer_eof = TRUE,
                          !.server.ready[c] =
                              @ \cup (server.interest[c] \cap {"EPOLLIN", "EPOLLRDHUP"})],
           "clientClose", c)

\* run(): an event of the listening socket
LoopAccept(add_fails) ==
    /\ ~server.crashed
    /\ server.pc = "running" /\ server.running_
    /\ server.listen_ready
    /\ Set(HandleNewConnection([Global EXCEPT !.server.listen_ready = FALSE], add_fails),
           "handleNewConnection", 0)

\* run(): an event of a client socket
LoopClientEvent(c) ==
    /\ ~server.crashed
    /\ server.pc = "running" /\ server.running_
    /\ server.ready[c] # {}
    /\ Set(HandleClientEvent([Global EXCEPT !.server.ready[c] = {}], c, server.ready[c]),
           "handleClientEvent", c)

\* run(): while (running_) ends; main() clears g_server_instance
RunReturns ==
    /\ ~server.crashed
    /\ server.pc = "running" /\ ~server.running_
    /\ Set([Global EXCEPT !.server.pc = "returned",
                          !.server.g_server_instance = FALSE], "runReturns", 0)

\* main(): the server goes out of scope
MainDestroysServer ==
    /\ ~server.crashed
    /\ server.pc = "returned"
    /\ Set([ServerDestructor(Global) EXCEPT !.server.pc = "joining"], "~NetworkServer", 0)

\* the pool's destructor has joined the workers: main() returns
MainExits ==
    /\ ~server.crashed
    /\ server.pc = "joining"
    /\ pool_.tasks = <<>>
    /\ \A k \in 1 .. NumWorkers : pool_.workers[k] = 0
    /\ Set([Global EXCEPT !.server.pc = "done"], "exit", 0)

Signal(s) ==
    /\ ~server.crashed
    /\ server.pc \in {"constructed", "running"}
    /\ Set(IF server.disposition[s] = "staticSignalHandler"
           THEN StaticSignalHandler(Global)
           ELSE MainSignalHandler(Global), server.disposition[s], 0)

\* a worker takes the next task (idle workers are interchangeable: the first)
TaskStart(k) ==
    /\ ~server.crashed
    /\ pool_.workers[k] = 0
    /\ \A j \in 1 .. k - 1 : pool_.workers[j] # 0
    /\ pool_.tasks # <<>>
    /\ Set([Global EXCEPT !.pool_.workers[k] = Head(pool_.tasks),
                          !.pool_.tasks = Tail(@)], "taskStart", 0)

\* the task runs to its end on a live handler
TaskFinish(k) ==
    /\ ~server.crashed
    /\ pool_.workers[k] # 0
    /\ conn[pool_.workers[k]].alive
    /\ Set([WithHandler(Global, pool_.workers[k], Handle(HandlerOf(Global, pool_.workers[k])))
                EXCEPT !.pool_.workers[k] = 0],
           "taskFinish", 0)

\* the task runs on a handler that was destroyed: the dangling reference
\* reads freed memory, and the process goes on or dies
TaskOnDestroyed(k, dies) ==
    /\ ~server.crashed
    /\ pool_.workers[k] # 0
    /\ ~conn[pool_.workers[k]].alive
    /\ Set([Global EXCEPT !.pool_.workers[k] = 0, !.server.crashed = dies],
           "taskOnDestroyed", 0)

InitServer ==
    /\ conn = [c \in Fds |-> NoHandler]
    /\ mem = NoMemory
    /\ lastOp = NoOp
    /\ server = ConstructedServer
    /\ pool_ = NoPool
    /\ held = <<>>
    /\ threads = NoThreads

NextServer ==
    \/ MainStart
    \/ \E c \in Fds : ClientConnects(c)
    \/ \E c \in Fds : ClientSends(c)
    \/ \E c \in Fds : ClientCloses(c)
    \/ \E add_fails \in SUBSET Fds : LoopAccept(add_fails)
    \/ \E c \in Fds : LoopClientEvent(c)
    \/ RunReturns
    \/ MainDestroysServer
    \/ MainExits
    \/ \E s \in Signals : Signal(s)
    \/ \E k \in 1 .. NumWorkers : TaskStart(k)
    \/ \E k \in 1 .. NumWorkers : TaskFinish(k)
    \/ \E k \in 1 .. NumWorkers, dies \in BOOLEAN : TaskOnDestroyed(k, dies)

SpecServer == InitServer /\ [][NextServer]_vars

(***************************************************************************)
(* C5: for one connection at most one read or write step executes at any   *)
(* time: whatever the interleaving of the reactor's dispatch and the       *)
(* workers, two readiness events of one socket never lead to two steps of  *)
(* its handler running at once.                                            *)
(***************************************************************************)
StepsRunning(c) == {k \in 1 .. NumWorkers : pool_.workers[k] = c}

C5_OneStepAtATime == \A c \in Fds : Cardinality(StepsRunning(c)) <= 1

(***************************************************************************)
(* C6: whenever a connection of the server is open and its outbound queue  *)
(* holds a message, write interest is armed for its socket (so that a      *)
(* write step is run and the message reaches the socket).                  *)
(***************************************************************************)
C6_WriteInterestArmed ==
    \A c \in server.connections_ :
        (conn[c].connected_ /\ conn[c].messages_ # <<>>)
            => "EPOLLOUT" \in server.interest[c]

(***************************************************************************)
(* C10: when the shutdown that a stop() or a shutdown signal requested has *)
(* completed, every connection has been closed, the connection mapping is  *)
(* empty, and the listening socket and the epoll handle have been closed.  *)
(***************************************************************************)
C10_ShutdownReleasesAll ==
    server.pc = "done" =>
        /\ server.connections_ = {}
        /\ \A c \in Fds : ~FdOpen(Global, c)
        /\ server.open = {}

(***************************************************************************)
(* C11: once stop() has run, a further call of stop(), made by main()'s    *)
(* signal handler or by the destructor, changes no state of the server,    *)
(* its handlers or the memory counters, and closes no descriptor again.    *)
(***************************************************************************)
CallsStop(op) == op \in {"signalHandler", "~NetworkServer"}

C11_StopIdempotent ==
    [][(server.stop_ran /\ CallsStop(lastOp'.op))
        => /\ conn' = conn
           /\ mem' = mem
           /\ [server' EXCEPT !.pc = server.pc] = server
           /\ server'.sys_closes = server.sys_closes
           /\ \A c \in Fds : conn'[c].closes = conn[c].closes]_vars

\* the destructor called stop() on a server that an explicit stop() had
\* stopped while it held a connection
C11_Witness ==
    /\ lastOp.op = "~NetworkServer"
    /\ server.stop_ran
    /\ server.g_shutdown_requested
    /\ server.accepted # {}
    /\ server.sys_closes = [d \in {"listen", "epoll"} |-> 1]

(***************************************************************************)
(* C12: the connection mapping never holds more than max_connections       *)
(* connections: a socket accepted beyond that is closed at once, neither   *)
(* inserted nor registered.                                                *)
(***************************************************************************)
C12_AtMostMaxConnections ==
    Cardinality(server.connections_) <= server.max_connections_

(***************************************************************************)
(* C13: between two events of the reactor every accepted client socket is  *)
(* either in the connection mapping, registered with epoll and open, or    *)
(* absent from the mapping, deregistered and closed.                       *)
(***************************************************************************)
C13_NoHalfTrackedSocket ==
    \A c \in server.accepted :
        \/ /\ c \in server.connections_
           /\ EpollRegistered(Global, c)
           /\ FdOpen(Global, c)
        \/ /\ c \notin server.connections_
           /\ ~EpollRegistered(Global, c)
           /\ ~FdOpen(Global, c)

(***************************************************************************)
(* C14: the read accumulator of an open connection never holds more than   *)
(* READ_BUFFER_FACTOR x MAX_MESSAGE_SIZE bytes, at no point of a           *)
(* handleRead step, the recv loop included.                                *)
(***************************************************************************)
C14_AccumulatorWithinCap ==
    \A c \in Fds :
        conn[c].read_peak <= MAX_MESSAGE_SIZE * READ_BUFFER_FACTOR

(***************************************************************************)
(* C15: when the read accumulator has reached READ_BUFFER_FACTOR x         *)
(* MAX_MESSAGE_SIZE bytes (exactly that many, or more) and holds no        *)
(* delimiter, the connection is closed and the callback has been given     *)
(* none of those bytes.                                                    *)
(***************************************************************************)
C15_FullAccumulatorCloses ==
    \A c \in Fds :
        (/\ conn[c].alive
         /\ Len(conn[c].read_buffer_) >= MAX_MESSAGE_SIZE * READ_BUFFER_FACTOR
         /\ Find(conn[c].read_buffer_, MESSAGE_DELIMITER) = 0)
        => /\ ~conn[c].connected_
           /\ conn[c].delivered =
                  FramesOf(Take(conn[c].rx, Len(conn[c].rx) - Len(conn[c].read_buffer_)))

\* C15 amended: the same once the accumulator holds more than
\* READ_BUFFER_FACTOR x MAX_MESSAGE_SIZE bytes without a delimiter.
C15_Amended ==
    \A c \in Fds :
        (/\ conn[c].alive
         /\ Len(conn[c].read_buffer_) > MAX_MESSAGE_SIZE * READ_BUFFER_FACTOR
         /\ Find(conn[c].read_buffer_, MESSAGE_DELIMITER) = 0)
        => /\ ~conn[c].connected_
           /\ conn[c].delivered =
                  FramesOf(Take(conn[c].rx, Len(conn[c].rx) - Len(conn[c].read_buffer_)))

\* handleRead took the accumulator past the cap with no delimiter in it
C15_Witness ==
    /\ lastOp.op = "handleRead"
    /\ conn[FirstFd].alive /\ ~conn[FirstFd].connected_
    /\ Len(conn[FirstFd].read_buffer_) > MAX_MESSAGE_SIZE * READ_BUFFER_FACTOR
    /\ Find(conn[FirstFd].read_buffer_, MESSAGE_DELIMITER) = 0
    /\ ~conn[FirstFd].peer_eof /\ ~conn[FirstFd].sock_err

(***************************************************************************)
(* SpecPool: the MessageBufferPool of one handler used directly: acquire,  *)
(* writes into the buffers handed out, and release of those buffers        *)
(***************************************************************************)
RemoveAt(s, i) == Take(s, i - 1) \o Drop(s, i)

CallPoolAcquire(c) ==
    /\ Len(held) <= MAX_POOL_SIZE
    /\ LET a == PoolAcquire(World(c))
       IN  /\ conn' = [conn EXCEPT ![c] = a.w.h]
           /\ mem' = a.w.m
           /\ held' = IF a.buffer.null THEN held ELSE Append(held, a.buffer)
           /\ lastOp' = [op |-> "acquire", fd |-> c, arg |-> <<a.buffer>>]
    /\ UNCHANGED <<server, pool_, threads>>

CallPoolRelease(c, i) ==
    /\ i \in 1 .. Len(held)
    /\ LET w == PoolRelease(World(c), held[i])
       IN  /\ conn' = [conn EXCEPT ![c] = w.h]
           /\ mem' = w.m
           /\ held' = RemoveAt(held, i)
           /\ lastOp' = [op |-> "release", fd |-> c, arg |-> <<held[i]>>]
    /\ UNCHANGED <<server, pool_, threads>>

\* acquire() and at once release() of what it returned (as enqueue does when
\* the bytes do not fit the buffer)
CallPoolAcquireRelease(c) ==
    /\ LET a == PoolAcquire(World(c))
           w == PoolRelease(a.w, a.buffer)
       IN  /\ conn' = [conn EXCEPT ![c] = w.h]
           /\ mem' = w.m
           /\ lastOp' = [op |-> "acquireRelease", fd |-> c, arg |-> <<a.buffer>>]
    /\ UNCHANGED <<server, pool_, held, threads>>

\* the holder of a buffer appends to it
HeldAppend(i, data) ==
    /\ i \in 1 .. Len(held)
    /\ held' = [held EXCEPT ![i] = BufferAppend(@, data).b]
    /\ lastOp' = [op |-> "append", fd |-> i, arg |-> <<data, BufferAppend(held[i], data).ok>>]
    /\ UNCHANGED <<conn, mem, server, pool_, threads>>

\* enqueue() on the queue that owns the pool, and pop(); the log of the
\* enqueued bytes is not kept here
CallQueueEnqueue(c, data) ==
    /\ LET e == QueueEnqueue(World(c), data)
       IN  /\ conn' = [conn EXCEPT ![c] = [e.w.h EXCEPT !.enqueued = <<>>]]
           /\ mem' = e.w.m
           /\ lastOp' = [op |-> "enqueue", fd |-> c, arg |-> <<data, e.ok>>]
    /\ UNCHANGED <<server, pool_, held, threads>>

CallQueuePop(c) ==
    /\ LET w == QueuePop(World(c))
       IN  /\ conn' = [conn EXCEPT ![c] = w.h]
           /\ mem' = w.m
           /\ lastOp' = [op |-> "pop", fd |-> c, arg |-> <<>>]
    /\ UNCHANGED <<server, pool_, held, threads>>

InitPool == InitOneConnection(<<>>)

NextPool ==
    \/ CallPoolAcquire(FirstFd)
    \/ CallPoolAcquireRelease(FirstFd)
    \/ \E i \in 1 .. MAX_POOL_SIZE + 1 : CallPoolRelease(FirstFd, i)
    \/ \E i \in 1 .. MAX_POOL_SIZE + 1, data \in Messages : HeldAppend(i, data)
    \/ \E data \in FewMessages : CallQueueEnqueue(FirstFd, data)
    \/ CallQueuePop(FirstFd)

SpecPool == InitPool /\ [][NextPool]_vars

(***************************************************************************)
(* C16: for a pool used only through acquire() and release() of the        *)
(* buffers it handed out, free-count + acquired-count <= MAX_POOL_SIZE and *)
(* free-count <= MAX_POOL_SIZE in every reachable state.                   *)
(***************************************************************************)
FreeCount(c) == Len(conn[c].available_buffers_)

AcquiredCount(c) == conn[c].active_buffers_

C16_PoolWithinMax ==
    /\ FreeCount(FirstFd) + AcquiredCount(FirstFd) <= MAX_POOL_SIZE
    /\ FreeCount(FirstFd) <= MAX_POOL_SIZE
    /\ conn[FirstFd].pool_size_ = FreeCount(FirstFd)
    /\ AcquiredCount(FirstFd) = Len(held) + Len(conn[FirstFd].messages_)

\* a release put a buffer back while another one is still out: the pool is
\* at its maximum
C16_Witness ==
    /\ lastOp.op = "release"
    /\ FreeCount(FirstFd) >= 1
    /\ AcquiredCount(FirstFd) >= 1
    /\ FreeCount(FirstFd) + AcquiredCount(FirstFd) = MAX_POOL_SIZE

(***************************************************************************)
(* C17: acquire() returns null exactly when the free list is empty and     *)
(* MAX_POOL_SIZE buffers are out, and then changes nothing; otherwise it   *)
(* returns an empty buffer of the pool's capacity with offset 0 and adds   *)
(* one to the acquired count, taking the buffer from the free list when    *)
(* there is one and allocating it otherwise.                               *)
(***************************************************************************)
C17_AcquireResult ==
    [][lastOp'.op = "acquire" =>
        LET c == lastOp'.fd
            buffer == lastOp'.arg[1]
        IN  /\ buffer.null <=> (FreeCount(c) = 0 /\ AcquiredCount(c) >= MAX_POOL_SIZE)
            /\ buffer.null => (conn' = conn /\ mem' = mem /\ held' = held)
            /\ ~buffer.null =>
                /\ buffer = MessageBuffer(DEFAULT_BUFFER_SIZE)
                /\ conn'[c].active_buffers_ = conn[c].active_buffers_ + 1
                /\ IF FreeCount(c) > 0
                   THEN /\ Len(conn'[c].available_buffers_) = FreeCount(c) - 1
                        /\ mem' = mem
                   ELSE /\ conn'[c].available_buffers_ = <<>>
                        /\ mem' = Allocate(mem, DEFAULT_BUFFER_SIZE)]_vars

\* acquire() has returned null: the free list is empty and MAX_POOL_SIZE
\* buffers are out
C17_Witness ==
    /\ lastOp.op = "acquire"
    /\ lastOp.arg[1].null
    /\ Len(held) = MAX_POOL_SIZE
    /\ FreeCount(FirstFd) = 0

(***************************************************************************)
(* C18 as claimed: acquire() followed at once by release() of the buffer   *)
(* it returned leaves free-count and acquired-count as they were, from     *)
(* every reachable state of the pool.                                      *)
(***************************************************************************)
C18_Original ==
    [][lastOp'.op = "acquireRelease" =>
        LET c == lastOp'.fd
        IN  /\ Len(conn'[c].available_buffers_) = FreeCount(c)
            /\ conn'[c].pool_size_ = conn[c].pool_size_
            /\ conn'[c].active_buffers_ = AcquiredCount(c)]_vars

\* C18 amended: acquired-count is as it was; free-count is as it was when
\* the free list held a buffer or acquire() returned null, and one more when
\* acquire() had to allocate the buffer, which release() then keeps.
C18_Amended ==
    [][lastOp'.op = "acquireRelease" =>
        LET c == lastOp'.fd
            grown == IF FreeCount(c) = 0 /\ AcquiredCount(c) < MAX_POOL_SIZE
                     THEN 1 ELSE 0
        IN  /\ Len(conn'[c].available_buffers_) = FreeCount(c) + grown
            /\ conn'[c].pool_size_ = conn[c].pool_size_ + grown
            /\ conn'[c].active_buffers_ = AcquiredCount(c)]_vars

\* acquire() and release() ran on a pool whose free list was empty: the
\* buffer allocated for the call is now the only one on the free list
C18_Witness ==
    /\ lastOp.op = "acquireRelease"
    /\ ~lastOp.arg[1].null
    /\ Len(held) >= 1
    /\ FreeCount(FirstFd) = 1
    /\ FreeCount(FirstFd) + AcquiredCount(FirstFd) = MAX_POOL_SIZE

(***************************************************************************)
(* SpecBuffer: MessageBuffer objects used directly: append, sendPartial    *)
(* with any start offset and any result of send, reset and splitAt         *)
(***************************************************************************)
HeldSendPartial(i, start_offset, r) ==
    /\ i \in 1 .. Len(held)
    /\ held' = [held EXCEPT ![i] = SendPartial(@, start_offset, r).b]
    /\ lastOp' = [op |-> "sendPartial", fd |-> i, arg |-> <<start_offset>>]
    /\ UNCHANGED <<conn, mem, server, pool_, threads>>

HeldReset(i) ==
    /\ i \in 1 .. Len(held)
    /\ held' = [held EXCEPT ![i] = BufferReset(@)]
    /\ lastOp' = [op |-> "reset", fd |-> i, arg |-> <<>>]
    /\ UNCHANGED <<conn, mem, server, pool_, threads>>

\* splitAt; the caller keeps the new buffer next to the first one and lets
\* any further one go (its destructor runs)
HeldSplitAt(i, position) ==
    /\ i \in 1 .. Len(held)
    /\ LET s == SplitAt(held[i], position)
           kept == [held EXCEPT ![i] = s.b]
       IN  IF s.new_buffer.null \/ Len(held) > 1
           THEN held' = kept /\ mem' = mem
           ELSE held' = Append(kept, s.new_buffer) /\ mem' = Allocate(mem, s.b.capacity_)
    /\ lastOp' = [op |-> "splitAt", fd |-> i, arg |-> <<position>>]
    /\ UNCHANGED <<conn, server, pool_, threads>>

InitBuffer ==
    /\ conn = [c \in Fds |-> NoHandler]
    /\ mem = Allocate(NoMemory, DEFAULT_BUFFER_SIZE)
    /\ lastOp = NoOp
    /\ server = NoServer
    /\ pool_ = NoPool
    /\ held = <<MessageBuffer(DEFAULT_BUFFER_SIZE)>>
    /\ threads = NoThreads

NextBuffer ==
    \/ \E i \in {1, 2}, data \in Messages : HeldAppend(i, data)
    \/ \E i \in {1, 2}, start_offset \in 0 .. DEFAULT_BUFFER_SIZE + 1,
          r \in SendResult : HeldSendPartial(i, start_offset, r)
    \/ \E i \in {1, 2} : HeldReset(i)
    \/ \E i \in {1, 2}, position \in 0 .. DEFAULT_BUFFER_SIZE : HeldSplitAt(i, position)

SpecBuffer == InitBuffer /\ [][NextBuffer]_vars

(***************************************************************************)
(* C19: every MessageBuffer keeps 0 <= offset <= size <= capacity through  *)
(* any sequence of append, sendPartial, reset and splitAt.                 *)
(***************************************************************************)
C19_OffsetSizeCapacity ==
    \A i \in 1 .. Len(held) :
        /\ 0 <= held[i].offset_
        /\ held[i].offset_ <= BufferSize(held[i])
        /\ BufferSize(held[i]) <= held[i].capacity_

(***************************************************************************)
(* C20: append(data, len) returns false exactly when size + len >          *)
(* capacity, and then leaves the buffer as it was; otherwise it returns    *)
(* true, the new bytes follow the old ones, and offset and capacity stay.  *)
(***************************************************************************)
C20_AppendAllOrNothing ==
    [][lastOp'.op = "append" =>
        LET b == held[lastOp'.fd]
            after == held'[lastOp'.fd]
            data == lastOp'.arg[1]
            returned == lastOp'.arg[2]
        IN  /\ ~returned <=> BufferSize(b) + Len(data) > b.capacity_
            /\ ~returned => after = b
            /\ returned =>
                /\ after.bytes = b.bytes \o data
                /\ BufferSize(after) = BufferSize(b) + Len(data)
                /\ after.offset_ = b.offset_
                /\ after.capacity_ = b.capacity_]_vars

\* an append was refused on a buffer that holds bytes, part of them sent,
\* and has room left, only not enough
C20_Witness ==
    /\ lastOp.op = "append"
    /\ ~lastOp.arg[2]
    /\ held[lastOp.fd].offset_ > 0
    /\ BufferSize(held[lastOp.fd]) < held[lastOp.fd].capacity_
    /\ Len(lastOp.arg[1]) <= held[lastOp.fd].capacity_

(***************************************************************************)
(* SpecTracker: threads that construct, move and destroy MessageBuffer     *)
(* objects at once; the constructor's allocate() is taken one atomic       *)
(* operation at a time                                                     *)
(***************************************************************************)
Capacities == {DEFAULT_BUFFER_SIZE, MAX_MESSAGE_SIZE}

TrackerStep(op) ==
    /\ lastOp' = [op |-> op, fd |-> 0, arg |-> <<>>]
    /\ UNCHANGED <<conn, server, pool_>>

\* MessageBuffer(capacity) up to allocate's fetch_add
ConstructBegin(t, capacity) ==
    /\ threads.call[t].pc = "idle"
    /\ threads.made < MaxBuffers
    /\ mem' = FetchAdd(mem, capacity)
    /\ threads' = [threads EXCEPT !.made = @ + 1,
                                  !.call[t] = [IdleThread EXCEPT
                                                  !.pc = "load",
                                                  !.capacity = capacity,
                                                  !.new_usage = mem'.current_usage_]]
    /\ held' = held
    /\ TrackerStep("fetch_add")

\* size_t current_peak = peak_usage_.load()
LoadPeak(t) ==
    /\ threads.call[t].pc = "load"
    /\ threads' = [threads EXCEPT !.call[t].pc = "cas",
                                  !.call[t].current_peak = mem.peak_usage_]
    /\ UNCHANGED <<mem, held>>
    /\ TrackerStep("load")

\* one turn of the while loop; when it ends allocate and the constructor
\* return and the buffer is live
CasLoop(t, spurious) ==
    /\ threads.call[t].pc = "cas"
    /\ LET my == threads.call[t]
           r == CompareExchangeWeak(mem, my.current_peak, my.new_usage, spurious)
       IN  IF my.new_usage > my.current_peak /\ ~r.ok
           THEN /\ threads' = [threads EXCEPT !.call[t].current_peak = r.expected]
                /\ UNCHANGED <<mem, held>>
           ELSE /\ mem' = IF my.new_usage > my.current_peak THEN r.m ELSE mem
                /\ threads' = [threads EXCEPT !.call[t] = IdleThread]
                /\ held' = Append(held, MessageBuffer(my.capacity))
    /\ TrackerStep("compare_exchange")

\* ~MessageBuffer of a live buffer: deallocate(capacity_) is one fetch_sub
DestroyBuffer(i) ==
    /\ i \in 1 .. Len(held)
    /\ mem' = Deallocate(mem, held[i].capacity_)
    /\ held' = RemoveAt(held, i)
    /\ threads' = threads
    /\ TrackerStep("~MessageBuffer")

\* MessageBuffer(MessageBuffer&&) = default: the new object takes buffer_
\* and copies capacity_, size_ and offset_; no allocate() runs, and the
\* source stays a live object with its capacity_
MoveConstruct(i) ==
    /\ i \in 1 .. Len(held)
    /\ threads.made < MaxBuffers
    /\ held' = Append(held, held[i])
    /\ threads' = [threads EXCEPT !.made = @ + 1]
    /\ mem' = mem
    /\ TrackerStep("MessageBuffer(MessageBuffer&&)")

InitTracker ==
    /\ conn = [c \in Fds |-> NoHandler]
    /\ mem = NoMemory
    /\ lastOp = NoOp
    /\ server = NoServer
    /\ pool_ = NoPool
    /\ held = <<>>
    /\ threads = NoThreads

NextTracker ==
    \/ \E t \in 1 .. NumThreads, capacity \in Capacities : ConstructBegin(t, capacity)
    \/ \E t \in 1 .. NumThreads : LoadPeak(t)
    \/ \E t \in 1 .. NumThreads, spurious \in BOOLEAN : CasLoop(t, spurious)
    \/ \E i \in 1 .. MaxBuffers : DestroyBuffer(i)
    \/ \E i \in 1 .. MaxBuffers : MoveConstruct(i)

SpecTracker == InitTracker /\ [][NextTracker]_vars

RECURSIVE SumCapacity(_)
SumCapacity(buffers) ==
    IF buffers = <<>> THEN 0
    ELSE Head(buffers).capacity_ + SumCapacity(Tail(buffers))

\* the capacities of the live buffers of a handler: scratch, free list, queue
HandlerCapacity(h) ==
    IF h.alive
    THEN h.temp_buffer_.capacity_ + SumCapacity(h.available_buffers_) + SumCapacity(h.messages_)
    ELSE 0

LiveCapacity ==
    SumCapacity(held) + SumOver([c \in Fds |-> HandlerCapacity(conn[c])], Fds)

NoConstructorRunning == \A t \in 1 .. NumThreads : threads.call[t].pc = "idle"

(***************************************************************************)
(* C21: whenever no MessageBuffer constructor or destructor is in          *)
(* progress, current_usage_ equals the sum of the capacities of the live   *)
(* MessageBuffers (free lists, queues, scratch buffers, buffers held by a  *)
(* caller), and it never wraps below zero.                                 *)
(***************************************************************************)
C21_UsageIsLiveCapacity ==
    NoConstructorRunning => mem.current_usage_ = LiveCapacity

(***************************************************************************)
(* C22: under every interleaving of the allocate and deallocate calls of   *)
(* several threads (no reset) peak_usage_ never decreases, and once every  *)
(* call has returned peak_usage_ is the largest value current_usage_ held  *)
(* right after an allocate, hence peak_usage_ >= current_usage_.           *)
(***************************************************************************)
C22_PeakTracksMaximum ==
    /\ [][mem'.peak_usage_ >= mem.peak_usage_]_vars
    /\ [](NoConstructorRunning =>
             /\ mem.peak_usage_ = mem.max_after_allocate
             /\ mem.peak_usage_ >= mem.current_usage_)

(***************************************************************************)
(* SpecQueue: threads that call enqueue, pop and clear of one handler's    *)
(* MessageQueue at once.  A step is what a call does under one mutex:      *)
(* pool_mutex_ inside acquire and release, queue_mutex_ around the rest.   *)
(***************************************************************************)
QueueStep(c, w, t, call, mutex, op, arg) ==
    /\ conn' = [conn EXCEPT ![c] = w.h]
    /\ mem' = w.m
    /\ threads' = [threads EXCEPT !.call[t] = call, !.queue_mutex_ = mutex]
    /\ lastOp' = [op |-> op, fd |-> c, arg |-> arg]
    /\ UNCHANGED <<server, pool_, held>>

\* enqueue: acquire(), which may return null (enqueue then returns false),
\* and, on the thread's own buffer, append()
EnqueueAcquire(c, t, data) ==
    /\ threads.call[t].pc = "idle"
    /\ LET a == PoolAcquire(World(c))
           p == BufferAppend(a.buffer, data)
       IN  IF a.buffer.null
           THEN QueueStep(c, a.w, t, IdleThread, threads.queue_mutex_,
                          "enqueueAcquire", <<"false">>)
           ELSE QueueStep(c, a.w, t,
                          [IdleThread EXCEPT !.pc = IF p.ok THEN "push" ELSE "release",
                                             !.buffer = p.b],
                          threads.queue_mutex_, "enqueueAcquire", <<"acquired">>)

\* enqueue: the append failed, release() and return false
EnqueueRelease(c, t) ==
    /\ threads.call[t].pc = "release"
    /\ QueueStep(c, PoolRelease(World(c), threads.call[t].buffer), t, IdleThread,
                 threads.queue_mutex_, "enqueueRelease", <<"false">>)

\* enqueue: lock, push_back, return true
EnqueuePush(c, t) ==
    /\ threads.call[t].pc = "push"
    /\ threads.queue_mutex_ = 0
    /\ QueueStep(c, [World(c) EXCEPT !.h.messages_ = Append(@, threads.call[t].buffer)],
                 t, IdleThread, 0, "enqueuePush", <<"true">>)

\* pop: lock; the front buffer leaves the vector
PopBegin(c, t) ==
    /\ threads.call[t].pc = "idle"
    /\ threads.queue_mutex_ = 0
    /\ IF QueueEmpty(World(c))
       THEN QueueStep(c, World(c), t, IdleThread, 0, "pop", <<>>)
       ELSE QueueStep(c, [World(c) EXCEPT !.h.messages_ = Tail(@)], t,
                      [IdleThread EXCEPT !.pc = "pop", !.buffer = QueueFront(World(c))],
                      t, "popErase", <<>>)

\* pop: release() of that buffer, unlock
PopRelease(c, t) ==
    /\ threads.call[t].pc = "pop"
    /\ QueueStep(c, PoolRelease(World(c), threads.call[t].buffer), t, IdleThread,
                 0, "popRelease", <<>>)

\* clear: lock
ClearBegin(c, t) ==
    /\ threads.call[t].pc = "idle"
    /\ threads.queue_mutex_ = 0
    /\ QueueStep(c, World(c), t, [IdleThread EXCEPT !.pc = "clear"], t, "clearLock", <<>>)

\* clear: one turn of the for loop (the released entry stays in the vector
\* as a null pointer), or messages_.clear() and unlock after the last
ClearStep(c, t) ==
    /\ threads.call[t].pc = "clear"
    /\ LET left == {i \in 1 .. Len(conn[c].messages_) : ~conn[c].messages_[i].null}
       IN  IF left = {}
           THEN QueueStep(c, [World(c) EXCEPT !.h.messages_ = <<>>], t, IdleThread,
                          0, "clear", <<>>)
           ELSE LET i == CHOOSE k \in left : \A j \in left : k <= j
                IN  QueueStep(c, [PoolRelease(World(c), conn[c].messages_[i])
                                     EXCEPT !.h.messages_[i] = NoBuffer],
                              t, threads.call[t], t, "clearRelease", <<>>)

InitQueue == InitOneConnection(<<>>)

NextQueue ==
    \/ \E t \in 1 .. NumThreads, data \in FewMessages : EnqueueAcquire(FirstFd, t, data)
    \/ \E t \in 1 .. NumThreads : EnqueueRelease(FirstFd, t)
    \/ \E t \in 1 .. NumThreads : EnqueuePush(FirstFd, t)
    \/ \E t \in 1 .. NumThreads : PopBegin(FirstFd, t)
    \/ \E t \in 1 .. NumThreads : PopRelease(FirstFd, t)
    \/ \E t \in 1 .. NumThreads : ClearBegin(FirstFd, t)
    \/ \E t \in 1 .. NumThreads : ClearStep(FirstFd, t)

SpecQueue == InitQueue /\ [][NextQueue]_vars

\* the buffers in the queue of c, and those an enqueue has acquired and not
\* yet queued
QueuedCount(c) ==
    Cardinality({i \in 1 .. Len(conn[c].messages_) : ~conn[c].messages_[i].null})

LoanedCount == Cardinality({t \in 1 .. NumThreads : threads.call[t].pc \in {"push", "release"}})

(***************************************************************************)
(* C23: for a live connection the buffers in its queue plus the buffers    *)
(* acquired from its pool and not yet queued never exceed MAX_POOL_SIZE,   *)
(* under any interleaving of enqueue, pop and clear; an enqueue attempted  *)
(* when MAX_POOL_SIZE buffers are out fails and returns false.             *)
(***************************************************************************)
C23_QueueWithinPoolMax ==
    /\ [](conn[FirstFd].alive => QueuedCount(FirstFd) + LoanedCount <= MAX_POOL_SIZE)
    /\ [][(/\ lastOp'.op = "enqueueAcquire"
            /\ QueuedCount(FirstFd) + LoanedCount >= MAX_POOL_SIZE)
          => /\ lastOp'.arg = <<"false">>
             /\ conn' = conn /\ mem' = mem /\ threads' = threads]_vars

\* an enqueue was refused while one buffer is queued and another thread is
\* between its acquire() and its push_back
C23_Witness ==
    /\ lastOp = [op |-> "enqueueAcquire", fd |-> FirstFd, arg |-> <<"false">>]
    /\ QueuedCount(FirstFd) >= 1
    /\ LoanedCount >= 1
    /\ QueuedCount(FirstFd) + LoanedCount = MAX_POOL_SIZE

(***************************************************************************)
(* C24: an enqueue fails when the pool returns no buffer or the bytes do   *)
(* not fit one pool buffer; it then returns false, the queue's sequence of *)
(* buffers is as it was, and the buffer it acquired, if any, is back in    *)
(* the pool: the acquired count is what it was before the call.            *)
(***************************************************************************)
PoolExhausted(c) == FreeCount(c) = 0 /\ AcquiredCount(c) >= MAX_POOL_SIZE

C24_FailedEnqueueRestores ==
    [][lastOp'.op = "enqueue" =>
        LET c == lastOp'.fd
            data == lastOp'.arg[1]
            returned == lastOp'.arg[2]
        IN  /\ (PoolExhausted(c) \/ Len(data) > DEFAULT_BUFFER_SIZE) <=> ~returned
            /\ ~returned =>
                /\ conn'[c].messages_ = conn[c].messages_
                /\ conn'[c].active_buffers_ = conn[c].active_buffers_
                /\ PoolExhausted(c) => (conn' = conn /\ mem' = mem)
                /\ conn'[c].pool_size_ = Len(conn'[c].available_buffers_)
                /\ held' = held]_vars

\* an enqueue of bytes that fit no pool buffer failed on a pool whose free
\* list was empty: the buffer allocated for it is now on the free list, and
\* the queue holds what it held
C24_Witness ==
    /\ lastOp.op = "enqueue"
    /\ ~lastOp.arg[2]
    /\ Len(lastOp.arg[1]) > DEFAULT_BUFFER_SIZE
    /\ conn[FirstFd].messages_ # <<>>
    /\ FreeCount(FirstFd) = 1
    /\ AcquiredCount(FirstFd) = Len(conn[FirstFd].messages_) + Len(held)

(***************************************************************************)
(* SpecPair: two connections side by side, each with its own socket; the   *)
(* read and write steps of either run against any answers of the sockets   *)
(***************************************************************************)
PairFds == {FirstFd, FirstFd + 1}

\* a chunk that fills the buffer of one recv, so that the next recv reports
\* what the socket has to say
FullChunk == [i \in 1 .. RECV_BUFFER_SIZE |-> IF i % 2 = 1 THEN 97 ELSE MESSAGE_DELIMITER]
PairArrivals == {<<>>, OneFrame, FullChunk}

\* handleWrite; the answers of the socket are kept in lastOp
CallHandleWriteWith(c, rs) ==
    /\ conn[c].alive
    /\ Commit(c, [HandleWrite(World(c), rs) EXCEPT !.h.last_send = "none"],
              "handleWrite", rs)

InitPair ==
    \E arrived \in [PairFds -> PairArrivals] :
        LET w1 == NewHandler(NoMemory, TRUE)
            w2 == NewHandler(w1.m, TRUE)
        IN  /\ conn = [c \in Fds |->
                          IF c = FirstFd THEN [w1.h EXCEPT !.rcvbuf = arrived[c]]
                          ELSE IF c = FirstFd + 1 THEN [w2.h EXCEPT !.rcvbuf = arrived[c]]
                          ELSE NoHandler]
            /\ mem = w2.m
            /\ lastOp = NoOp
            /\ server = NoServer
            /\ pool_ = NoPool
            /\ held = <<>>
            /\ threads = NoThreads

\* the first connection is sent on and written with every answer of its
\* socket; the socket of the second one only ever refuses
NextPair ==
    \/ CallSendMessageString(FirstFd, Alternating(1, 97))
    \/ \E r \in SendResult : CallHandleWriteWith(FirstFd, <<r>>)
    \/ \E r \in {Fails(EAGAIN), Fails(EIO)} : CallHandleWriteWith(FirstFd + 1, <<r>>)
    \/ \E c \in PairFds : CallHandleRead(c)
    \/ \E c \in PairFds : SocketError(c)

SpecPair == InitPair /\ [][NextPair]_vars

(***************************************************************************)
(* C25: EAGAIN from recv or send never closes a connection: handleRead and *)
(* handleWrite return with connected_ still true and the queued bytes as   *)
(* they were.  Any other failure of recv or send sets connected_ to false  *)
(* on that connection only: every other connection, the memory counters    *)
(* and the server are as they were.                                        *)
(***************************************************************************)
\* recv has nothing to return but EAGAIN
RecvAnswersAgain(h) == h.rcvbuf = <<>> /\ ~h.sock_err /\ ~h.peer_eof

\* the recv loop comes to the recv that reports the socket's error
RecvAnswersError(h) == h.sock_err /\ Len(h.rcvbuf) % RECV_BUFFER_SIZE = 0

C25_OnlyRealFailuresClose ==
    [][\A c \in PairFds :
        (lastOp'.fd = c /\ conn[c].alive /\ conn[c].connected_) =>
            /\ (lastOp'.op = "handleRead" /\ RecvAnswersAgain(conn[c]))
                   => (conn' = conn /\ mem' = mem)
            /\ (lastOp'.op = "handleWrite" /\ lastOp'.arg = <<Fails(EAGAIN)>>)
                   => (conn' = conn /\ mem' = mem)
            /\ (lastOp'.op = "handleWrite" /\ lastOp'.arg # <<Fails(EIO)>>)
                   => /\ conn'[c].connected_
                      /\ conn'[c].sent \o Unsent(conn'[c].messages_)
                             = conn[c].sent \o Unsent(conn[c].messages_)
            /\ (lastOp'.op = "handleRead" /\ RecvAnswersError(conn[c]))
                   => ~conn'[c].connected_
            /\ (/\ lastOp'.op = "handleWrite" /\ lastOp'.arg = <<Fails(EIO)>>
                /\ conn[c].messages_ # <<>>)
                   => ~conn'[c].connected_
            /\ lastOp'.op \in {"handleRead", "handleWrite"}
                   => /\ \A d \in Fds \ {c} : conn'[d] = conn[d]
                      /\ server' = server /\ pool_' = pool_]_vars

\* a failed send closed one connection while the other one, which also has
\* bytes queued, stays open
C25_Witness ==
    /\ lastOp = [op |-> "handleWrite", fd |-> FirstFd, arg |-> <<Fails(EIO)>>]
    /\ ~conn[FirstFd].connected_
    /\ conn[FirstFd].messages_ # <<>>
    /\ conn[FirstFd + 1].connected_
    /\ conn[FirstFd + 1].messages_ # <<>>

(***************************************************************************)
(* SpecThrow: one connection whose callback may throw, read after any      *)
(* arrival; a caller that an exception has reached makes no further call   *)
(***************************************************************************)
Throws == {"no", "std::exception", "other"}

InitThrow ==
    \E arrived \in Arrivals \cup PairArrivals, callback_throws \in Throws :
        LET w == NewHandler(NoMemory, TRUE)
        IN  /\ conn = [c \in Fds |->
                          IF c = FirstFd
                          THEN [w.h EXCEPT !.rcvbuf = arrived,
                                           !.callback_throws = callback_throws]
                          ELSE NoHandler]
            /\ mem = w.m
            /\ lastOp = NoOp
            /\ server = NoServer
            /\ pool_ = NoPool
            /\ held = <<>>
            /\ threads = NoThreads

NoneEscaped(c) == conn[c].escaped = "none"

\* the peer sends one more frame
PeerSendFrame(c) ==
    /\ conn[c].alive /\ ~conn[c].peer_eof
    /\ Len(conn[c].rx) + Len(conn[c].rcvbuf) + Len(OneFrame) <= MaxStream
    /\ conn' = [conn EXCEPT ![c].rcvbuf = @ \o OneFrame]
    /\ lastOp' = [op |-> "peerSend", fd |-> c, arg |-> OneFrame]
    /\ UNCHANGED <<mem, server, pool_, held, threads>>

NextThrow ==
    \/ NoneEscaped(FirstFd) /\ CallHandleRead(FirstFd)
    \/ NoneEscaped(FirstFd) /\ PeerSendFrame(FirstFd)
    \/ \E r \in SendResult : NoneEscaped(FirstFd) /\ CallHandleWrite(FirstFd, <<r>>)
    \/ NoneEscaped(FirstFd) /\ PeerClose(FirstFd)

SpecThrow == InitThrow /\ [][NextThrow]_vars

(***************************************************************************)
(* C26: an exception the callback throws while a frame is delivered is     *)
(* caught inside handleRead: none leaves handleRead for the worker thread  *)
(* that runs it.                                                           *)
(***************************************************************************)
C26_HandlerExceptionsCaught ==
    \A c \in Fds :
        (lastOp.op = "handleRead" /\ lastOp.fd = c) => conn[c].escaped = "none"

(***************************************************************************)
(* C27: whatever was done with a connection between its construction and   *)
(* its destruction (reads, sendMessage calls that succeed or fail, partial *)
(* writes, close), current_usage_ after the destructor is what it was      *)
(* before the constructor.                                                 *)
(***************************************************************************)
C27_DestructionRestoresUsage ==
    \A c \in Fds :
        (lastOp.op = "destructor" /\ lastOp.fd = c)
        => /\ ~conn[c].alive
           /\ mem.current_usage_ = NoMemory.current_usage_

\* a connection was destroyed after it delivered a frame, grew its pool
\* beyond the preallocated buffers and wrote only a part of what it queued
C27_Witness ==
    /\ lastOp.op = "destructor"
    /\ conn[FirstFd].delivered # <<>>
    /\ conn[FirstFd].sent # <<>>
    /\ Len(conn[FirstFd].sent) < Len(Flatten(conn[FirstFd].enqueued))
    /\ mem.peak_usage_ > MAX_MESSAGE_SIZE + PREALLOCATED_BUFFERS * DEFAULT_BUFFER_SIZE

(***************************************************************************)
(* SpecDispatch: the server with handleClientEvent taken in two steps, the *)
(* lookup of the entry and the use of what it found, so that a signal can  *)
(* arrive between them                                                     *)
(***************************************************************************)
ReactorIdle == server.dispatching = 0

\* auto it = connections_.find(client_fd); if (it == connections_.end()) return;
DispatchFind(c) ==
    /\ ~server.crashed
    /\ server.pc = "running" /\ server.running_
    /\ ReactorIdle
    /\ server.ready[c] # {}
    /\ Set([Global EXCEPT !.server.ready[c] = {},
                          !.server.dispatching =
                              IF c \in server.connections_ THEN c ELSE 0,
                          !.server.event_mask =
                              IF c \in server.connections_ THEN server.ready[c] ELSE {}],
           "find", c)

\* the rest of handleClientEvent.  When the entry has been erased since the
\* lookup, cleanupConnection looks it up again and finds nothing, while the
\* EPOLLIN branch reads it->second through the dangling iterator: the
\* process dies, or the task is queued for the destroyed handler
DispatchUse(c, dies) ==
    /\ ~server.crashed
    /\ server.dispatching = c
    /\ LET g == [Global EXCEPT !.server.dispatching = 0, !.server.event_mask = {}]
           events == server.event_mask
       IN  IF c \in server.connections_
           THEN Set(HandleClientEvent(g, c, events), "handleClientEvent", c)
           ELSE IF events \cap {"EPOLLRDHUP", "EPOLLHUP", "EPOLLERR"} # {}
           THEN Set(CleanupConnection(g, c), "handleClientEvent", c)
           ELSE IF "EPOLLIN" \in events
           THEN Set(IF dies THEN [g EXCEPT !.server.crashed = TRUE]
                    ELSE [g EXCEPT !.pool_.tasks = Append(@, c)],
                    "handleClientEvent", c)
           ELSE Set(g, "handleClientEvent", c)

NextDispatch ==
    \/ MainStart
    \/ \E c \in Fds : ClientConnects(c)
    \/ \E c \in Fds : ClientSends(c)
    \/ \E c \in Fds : ClientCloses(c)
    \/ \E add_fails \in SUBSET Fds : ReactorIdle /\ LoopAccept(add_fails)
    \/ \E c \in Fds : DispatchFind(c)
    \/ \E c \in Fds, dies \in BOOLEAN : DispatchUse(c, dies)
    \/ ReactorIdle /\ RunReturns
    \/ MainDestroysServer
    \/ MainExits
    \/ \E s \in Signals : Signal(s)
    \/ \E k \in 1 .. NumWorkers : TaskStart(k)
    \/ \E k \in 1 .. NumWorkers : TaskFinish(k)
    \/ \E k \in 1 .. NumWorkers, dies \in BOOLEAN : TaskOnDestroyed(k, dies)

SpecDispatch == InitServer /\ [][NextDispatch]_vars

(***************************************************************************)
(* C28: the connection mapping is changed only by the event loop's own     *)
(* steps: while handleClientEvent is between finding an entry and using    *)
(* it, no stop(), signal handler or worker task inserts into, erases from  *)
(* or clears the mapping.                                                  *)
(***************************************************************************)
C28_MappingOwnedByReactor ==
    [][(~ReactorIdle /\ lastOp'.op # "handleClientEvent")
        => server'.connections_ = server.connections_]_vars

(***************************************************************************)
(* C29: handleRead on a connected handler returns only after a recv has    *)
(* reported try-again, a real error or end of file; it never returns while *)
(* the last recv returned data, not even fewer bytes than the chunk        *)
(* buffer holds.                                                           *)
(***************************************************************************)
C29_ReadDrainsSocket ==
    [][\A c \in Fds :
        (/\ lastOp'.op = "handleRead" /\ lastOp'.fd = c
         /\ conn[c].alive /\ conn[c].connected_)
            => lastOp'.arg \in {<<"again">>, <<"error">>, <<"eof">>}]_vars

(***************************************************************************)
(* SpecWrite: SpecSend on a socket that keeps accepting bytes: a           *)
(* handleWrite whose send takes everything offered is called again and     *)
(* again                                                                   *)
(***************************************************************************)
SpecWrite ==
    SpecSend /\ WF_vars(CallHandleWrite(FirstFd, <<Accepts(DEFAULT_BUFFER_SIZE)>>))

(***************************************************************************)
(* C30: handleWrite removes every completed head buffer (offset = size,    *)
(* a buffer of size 0 included), and when it returns without a fatal       *)
(* error the queue is empty or the last send reported try-again; so on a   *)
(* socket that keeps accepting bytes repeated handleWrite calls empty the  *)
(* queue in the end.                                                       *)
(***************************************************************************)
C30_WriteDrainsQueue ==
    /\ [][\A c \in Fds :
            (/\ lastOp'.op = "handleWrite" /\ lastOp'.fd = c
             /\ conn[c].alive /\ conn[c].connected_ /\ conn'[c].connected_)
                => /\ conn'[c].messages_ # <<>> => ~IsComplete(conn'[c].messages_[1])
                   /\ conn'[c].messages_ = <<>> \/ lastOp'.arg = <<EAGAIN>>]_vars
    /\ (conn[FirstFd].connected_ /\ conn[FirstFd].messages_ # <<>>)
           ~> (~conn[FirstFd].connected_ \/ conn[FirstFd].messages_ = <<>>)

(***************************************************************************)
(* C31: after a handleRead that leaves the handler connected, read_buffer_ *)
(* holds no delimiter and is exactly what was received after the last      *)
(* delimiter; the callback has been given the non-empty frames that are    *)
(* closed by a delimiter, whole and in order, however the reads cut them,  *)
(* and a read that brings no delimiter calls no callback.                  *)
(***************************************************************************)
RECURSIVE AfterLastDelimiter(_)
AfterLastDelimiter(s) ==
    LET pos == Find(s, MESSAGE_DELIMITER)
    IN  IF pos = 0 THEN s ELSE AfterLastDelimiter(Drop(s, pos))

RECURSIVE NonEmptyFrames(_)
NonEmptyFrames(s) ==
    LET pos == Find(s, MESSAGE_DELIMITER)
    IN  IF pos = 0 THEN <<>>
        ELSE IF pos = 1 THEN NonEmptyFrames(Drop(s, pos))
        ELSE <<Take(s, pos - 1)>> \o NonEmptyFrames(Drop(s, pos))

C31_FramesAcrossReads ==
    [][\A c \in Fds :
        (/\ lastOp'.op = "handleRead" /\ lastOp'.fd = c
         /\ conn'[c].alive /\ conn'[c].connected_)
            => /\ Find(conn'[c].read_buffer_, MESSAGE_DELIMITER) = 0
               /\ conn'[c].read_buffer_ = AfterLastDelimiter(conn'[c].rx)
               /\ conn'[c].delivered = NonEmptyFrames(conn'[c].rx)
               /\ Find(Drop(conn'[c].rx, Len(conn[c].rx)), MESSAGE_DELIMITER) = 0
                      => conn'[c].delivered = conn[c].delivered]_vars

\* a frame of two bytes has been delivered by a read that also left the
\* beginning of the next frame in read_buffer_
C31_Witness ==
    /\ lastOp = [op |-> "handleRead", fd |-> FirstFd, arg |-> <<"data">>]
    /\ conn[FirstFd].connected_
    /\ conn[FirstFd].delivered = <<<<97, 97>>>>
    /\ conn[FirstFd].read_buffer_ = <<97>>

(***************************************************************************)
(* C32: sendPartial(socket, start_offset) sends from [start_offset, size)  *)
(* only: with start_offset >= size it leaves the buffer as it is; when the *)
(* socket accepts k > 0 bytes offset_ becomes start_offset + k <= size;    *)
(* when send fails offset_ stays; and no sendPartial call ever makes       *)
(* offset_ smaller.                                                        *)
(***************************************************************************)
C32_SendPartialOffset ==
    [][lastOp'.op = "sendPartial" =>
        LET i == lastOp'.fd
            start_offset == lastOp'.arg[1]
        IN  /\ held'[i].bytes = held[i].bytes
            /\ start_offset >= BufferSize(held[i]) => held'[i] = held[i]
            /\ \/ held'[i].offset_ = held[i].offset_
               \/ \E k \in 1 .. BufferSize(held[i]) :
                      /\ held'[i].offset_ = start_offset + k
                      /\ held'[i].offset_ <= BufferSize(held[i])
            /\ held'[i].offset_ >= held[i].offset_]_vars

(***************************************************************************)
(* C33: splitAt(p) with p inside the buffer returns a new buffer of the    *)
(* same capacity that holds the old bytes [p, size) and truncates the      *)
(* buffer to size p, so the two together are the old contents; with p past *)
(* the end it returns null and leaves the buffer as it is.                 *)
(***************************************************************************)
C33_SplitAtPartitions ==
    [][lastOp'.op = "splitAt" =>
        LET i == lastOp'.fd
            position == lastOp'.arg[1]
        IN  IF position < BufferSize(held[i])
            THEN /\ held'[i].bytes = Take(held[i].bytes, position)
                 /\ held'[i].capacity_ = held[i].capacity_
                 /\ Len(held) = 1 =>
                        /\ Len(held') = 2
                        /\ ~held'[2].null
                        /\ held'[2].capacity_ = held[i].capacity_
                        /\ held'[2].bytes = Drop(held[i].bytes, position)
                        /\ held'[1].bytes \o held'[2].bytes = held[i].bytes
            ELSE held' = held]_vars

\* "ab" has been split at 1 into "a" and "b"
C33_Witness ==
    /\ lastOp = [op |-> "splitAt", fd |-> 1, arg |-> <<1>>]
    /\ Len(held) = 2
    /\ held[1].bytes = <<97>>
    /\ held[2].bytes = <<98>>

(***************************************************************************)
(* C34: the frames a peer sent before it closed are read and processed     *)
(* before its connection is cleaned up: when handleClientEvent destroys    *)
(* the handler of a peer that has closed, no frame of that peer is still   *)
(* unread in the socket or unprocessed in read_buffer_.                    *)
(***************************************************************************)
C34_FramesBeforeCleanup ==
    [][\A c \in Fds :
        (/\ lastOp'.op = "handleClientEvent" /\ lastOp'.fd = c
         /\ conn[c].alive /\ ~conn'[c].alive
         /\ conn[c].peer_eof)
            => /\ Find(conn[c].rcvbuf, MESSAGE_DELIMITER) = 0
               /\ Find(conn[c].read_buffer_, MESSAGE_DELIMITER) = 0]_vars

(***************************************************************************)
(* SpecCloser: one connection whose callback may close it, read after any  *)
(* arrival                                                                 *)
(***************************************************************************)
InitCloser ==
    \E arrived \in Arrivals \cup PairArrivals, callback_closes \in BOOLEAN :
        LET w == NewHandler(NoMemory, TRUE)
        IN  /\ conn = [c \in Fds |->
                          IF c = FirstFd
                          THEN [w.h EXCEPT !.rcvbuf = arrived,
                                           !.callback_closes = callback_closes]
                          ELSE NoHandler]
            /\ mem = w.m
            /\ lastOp = NoOp
            /\ server = NoServer
            /\ pool_ = NoPool
            /\ held = <<>>
            /\ threads = NoThreads

NextCloser ==
    \/ CallHandleRead(FirstFd)
    \/ CallProcessMessages(FirstFd)
    \/ PeerSendFrame(FirstFd)
    \/ PeerClose(FirstFd)
    \/ \E r \in SendResult : CallHandleWrite(FirstFd, <<r>>)
    \/ CallClose(FirstFd)

SpecCloser == InitCloser /\ [][NextCloser]_vars

(***************************************************************************)
(* C35: no frame is given to the callback after the connection has been    *)
(* closed: when the callback closes the connection while further complete  *)
(* frames wait in read_buffer_, those frames are not delivered.            *)
(***************************************************************************)
C35_NoDeliveryAfterClose ==
    \A c \in Fds : conn[c].late_deliveries = 0

(***************************************************************************)
(* C36: every accepted client descriptor is closed exactly once on every   *)
(* path (failed registration, cleanup after a hang-up, cleanup of a        *)
(* handler already disconnected, stop(), destructor): it is never closed   *)
(* twice, and it is not left open once its handler is gone.                *)
(***************************************************************************)
DescriptorCloses(c) == conn[c].closes + server.srv_closes[c]

C36_ClosedExactlyOnce ==
    \A c \in server.accepted :
        /\ DescriptorCloses(c) <= 1
        /\ ~conn[c].alive => DescriptorCloses(c) = 1

(***************************************************************************)
(* C37: a task submitted for a connection never runs on it after it has    *)
(* been erased from connections_ and destroyed: in every interleaving of   *)
(* cleanupConnection and stop() with queued and running tasks, the handler *)
(* of the task a worker runs is alive.                                     *)
(***************************************************************************)
C37_TasksOnLiveHandlers ==
    \A k \in 1 .. NumWorkers :
        pool_.workers[k] # 0 => conn[pool_.workers[k]].alive

(***************************************************************************)
(* SpecScratch: threads that call sendMessage(const std::string&) of one   *)
(* handler at once.  The method takes no lock; a step is one statement of  *)
(* it: the connected_ test with temp_buffer_->reset(), each of the two     *)
(* append calls, and the enqueue of temp_buffer_'s data and size.          *)
(***************************************************************************)
ScratchMessages == {<<b>> : b \in Payload}

SendReset(c, t, message) ==
    /\ threads.call[t].pc = "idle"
    /\ Len(conn[c].enqueued) < MaxEnqueued
    /\ IF ~conn[c].connected_
       THEN QueueStep(c, World(c), t, IdleThread, threads.queue_mutex_,
                      "sendMessageReturn", message)
       ELSE QueueStep(c, [World(c) EXCEPT !.h.temp_buffer_ = BufferReset(@)], t,
                      [IdleThread EXCEPT !.pc = "append", !.message = message],
                      threads.queue_mutex_, "sendMessageReset", message)

SendAppend(c, t) ==
    /\ threads.call[t].pc = "append"
    /\ QueueStep(c, [World(c) EXCEPT !.h.temp_buffer_ =
                                         BufferAppend(@, threads.call[t].message).b],
                 t, [threads.call[t] EXCEPT !.pc = "delimiter"],
                 threads.queue_mutex_, "sendMessageAppend", threads.call[t].message)

SendDelimiter(c, t) ==
    /\ threads.call[t].pc = "delimiter"
    /\ QueueStep(c, [World(c) EXCEPT !.h.temp_buffer_ =
                                         BufferAppend(@, <<MESSAGE_DELIMITER>>).b],
                 t, [threads.call[t] EXCEPT !.pc = "enqueue"],
                 threads.queue_mutex_, "sendMessageDelimiter", threads.call[t].message)

SendEnqueue(c, t) ==
    /\ threads.call[t].pc = "enqueue"
    /\ QueueStep(c, QueueEnqueue(World(c), conn[c].temp_buffer_.bytes).w, t, IdleThread,
                 threads.queue_mutex_, "sendMessageEnqueue", threads.call[t].message)

\* the reactor's thread sends what is queued
ScratchHandleWrite(c, rs) ==
    /\ conn[c].alive
    /\ conn' = [conn EXCEPT ![c] =
                   [HandleWrite(World(c), rs).h EXCEPT !.last_send = "none"]]
    /\ lastOp' = [op |-> "handleWrite", fd |-> c, arg |-> rs]
    /\ UNCHANGED <<mem, server, pool_, held, threads>>

InitScratch == InitOneConnection(<<>>)

NextScratch ==
    \/ \E t \in 1 .. NumThreads, message \in ScratchMessages : SendReset(FirstFd, t, message)
    \/ \E t \in 1 .. NumThreads : SendAppend(FirstFd, t)
    \/ \E t \in 1 .. NumThreads : SendDelimiter(FirstFd, t)
    \/ \E t \in 1 .. NumThreads : SendEnqueue(FirstFd, t)
    \/ ScratchHandleWrite(FirstFd, <<Accepts(DEFAULT_BUFFER_SIZE)>>)

SpecScratch == InitScratch /\ [][NextScratch]_vars

(***************************************************************************)
(* C38: two sendMessage calls that run at once on one connection each      *)
(* enqueue their own complete message: what a call puts on the queue is    *)
(* its own argument followed by the delimiter, never bytes of the other    *)
(* call, a truncated message or nothing.                                   *)
(***************************************************************************)
C38_ConcurrentSendsKeepBytes ==
    [][\A c \in Fds :
        (/\ lastOp'.op = "sendMessageEnqueue" /\ lastOp'.fd = c
         /\ Len(conn[c].messages_) < MAX_POOL_SIZE)
            => conn'[c].messages_ =
                   Append(conn[c].messages_, QueuedCopy(Framed(lastOp'.arg)))]_vars

(***************************************************************************)
(* The string-queue version of the handler (src/src/ConnectionHandler.cpp) *)
(* and SpecStrings: its sendMessage and handleWrite under any answers of   *)
(* the socket                                                              *)
(***************************************************************************)
FormatMessage(message) == message \o <<MESSAGE_DELIMITER>>

StringSendMessage(w, message) ==
    IF ~w.h.connected_ THEN w
    ELSE [w EXCEPT !.h.send_queue_ = Append(@, FormatMessage(message)),
                   !.h.enqueued = Append(@, FormatMessage(message))]

\* the send loop; rs are the answers of the socket to the send() calls of
\* this wakeup, EAGAIN once they are used up
RECURSIVE StringWriteLoop(_, _)
StringWriteLoop(w, rs) ==
    IF w.h.send_queue_ = <<>> THEN w
    ELSE LET message == Head(w.h.send_queue_)
             r == IF rs = <<>> THEN Fails(EAGAIN) ELSE Head(rs)
             bytes_sent == Min(r.n, Len(message))
         IN  IF bytes_sent < 0
             THEN IF r.errno = EAGAIN THEN w ELSE HandleDisconnection(w)
             ELSE IF bytes_sent < Len(message)
             THEN LET remaining == Drop(message, bytes_sent)
                  IN  [w EXCEPT !.h.sent = @ \o Take(message, bytes_sent),
                                !.h.send_queue_ = Append(Tail(@), remaining)]
             ELSE StringWriteLoop([w EXCEPT !.h.sent = @ \o message,
                                            !.h.send_queue_ = Tail(@)],
                                  Tail(rs))

StringHandleWrite(w, rs) ==
    IF ~w.h.connected_ \/ w.h.send_queue_ = <<>> THEN w ELSE StringWriteLoop(w, rs)

CallStringSendMessage(c, message) ==
    /\ conn[c].alive
    /\ Len(conn[c].enqueued) < MaxEnqueued
    /\ Commit(c, StringSendMessage(World(c), message), "sendMessage", message)

CallStringHandleWrite(c, rs) ==
    /\ conn[c].alive
    /\ Commit(c, StringHandleWrite(World(c), rs), "handleWrite", rs)

InitStrings == InitOneConnection(<<>>)

NextStrings ==
    \/ \E s \in FewMessages : CallStringSendMessage(FirstFd, s)
    \/ \E rs \in SendResults : CallStringHandleWrite(FirstFd, rs)

SpecStrings == InitStrings /\ [][NextStrings]_vars

(***************************************************************************)
(* C39: in the string-queue handleWrite, when a send takes only the first  *)
(* k bytes of the head message while other messages wait behind it, the    *)
(* rest stays at the head and goes out before any later message: the bytes *)
(* on the wire followed by the queue are the enqueued messages in order.   *)
(***************************************************************************)
C39_PartialSendKeepsOrder ==
    \A c \in Fds :
        conn[c].alive =>
            conn[c].sent \o Flatten(conn[c].send_queue_) = Flatten(conn[c].enqueued)

(***************************************************************************)
(* SpecAccept: the server with handleNewConnection taken one accept call   *)
(* at a time.  accept hands out a waiting connection, or fails with EAGAIN *)
(* when none waits, or fails with another errno: EMFILE once the process   *)
(* has run out of descriptors, EBADF once stop() has closed server_fd_.    *)
(* The reactor thread is scheduled fairly.                                 *)
(***************************************************************************)
NotAccepting == ~server.accepting

\* the process reaches its descriptor limit; nothing in the accept loop
\* gives a descriptor back
FdLimitReached ==
    /\ ~server.crashed
    /\ server.pc = "running"
    /\ ~server.fd_limit
    /\ Set([Global EXCEPT !.server.fd_limit = TRUE], "fdLimit", 0)

\* run(): an event of the listening socket, handleNewConnection begins
AcceptBegin ==
    /\ ~server.crashed
    /\ server.pc = "running" /\ server.running_
    /\ NotAccepting
    /\ server.listen_ready
    /\ Set([Global EXCEPT !.server.listen_ready = FALSE, !.server.accepting = TRUE],
           "handleNewConnection", 0)

\* one turn of while (true): accept and what follows it
AcceptOne(add_fails) ==
    /\ ~server.crashed
    /\ server.accepting
    /\ IF "listen" \notin server.open \/ (server.fd_limit /\ server.backlog # {})
       THEN Set(Global, "acceptFails", 0)
       ELSE IF server.backlog = {}
       THEN Set([Global EXCEPT !.server.accepting = FALSE], "acceptAgain", 0)
       ELSE LET client_fd == CHOOSE c \in server.backlog : \A d \in server.backlog : c <= d
                g == HandleNewConnection([Global EXCEPT !.server.backlog = {client_fd}],
                                         add_fails)
            IN  Set([g EXCEPT !.server.backlog = server.backlog \ {client_fd}],
                    "acceptConnection", client_fd)

NextAccept ==
    \/ MainStart
    \/ \E c \in Fds : ClientConnects(c)
    \/ \E c \in Fds : ClientSends(c)
    \/ \E c \in Fds : ClientCloses(c)
    \/ FdLimitReached
    \/ AcceptBegin
    \/ \E add_fails \in SUBSET Fds : AcceptOne(add_fails)
    \/ \E c \in Fds : NotAccepting /\ LoopClientEvent(c)
    \/ NotAccepting /\ RunReturns
    \/ \E s \in Signals : Signal(s)

SpecAccept ==
    /\ InitServer
    /\ [][NextAccept]_vars
    /\ WF_vars(\E add_fails \in SUBSET Fds : AcceptOne(add_fails))

(***************************************************************************)
(* C40: the accept loop always ends and gives control back to the event    *)
(* loop: it ends when accept reports try-again, and an accept error that   *)
(* is not transient and persists cannot keep handleNewConnection looping   *)
(* for ever.                                                               *)
(***************************************************************************)
C40_AcceptLoopReturns == server.accepting ~> NotAccepting

====
